---- MODULE Spec2Model ----
(***************************************************************************)
(* Place-and-route engine of src/backend/utils/helpers.py: the Breadboard  *)
(* geometry and occupancy, the union-find over holes, Passive placement    *)
(* enumeration, the router (find_straight_edge, shortest_path_by_segments, *)
(* commit_path, route_net), the shorts check and the backtracking search   *)
(* PnR.place_and_route / PnR._place_rec, stepped as a state machine.       *)
(*                                                                         *)
(* A hole is the pair <<row, col>>.  Python's None is the string "None".   *)
(* The iteration order of the hole sets (bb.holes, bb.rails_v, bb.rails_g) *)
(* is fixed for a CPython build; it is modelled as row-major order.  The   *)
(* iteration order of the set of rail NAMES (rails_used, a set of str) is  *)
(* hash-seed dependent and is modelled as a nondeterministic choice.       *)
(* Scores are scaled by 10 (0.3 * d becomes 3 * d) to stay in the integers.*)
(* UF.find's path compression changes parent pointers but no root, and     *)
(* union consults roots and ranks only, so find is modelled as the root    *)
(* walk without the pointer rewrite.                                       *)
(*                                                                         *)
(* Also modelled: generate_gcode_from_solution of the same file, called on *)
(* results of PnR.solution, and netlist_to_pnr_inputs of                   *)
(* src/backend/workflows/CircuitToPrinterWorkflow.py.                      *)
(***************************************************************************)
EXTENDS Integers, Sequences, FiniteSets, TLC

\* ------------------------------------------------------------------------
\* Bounds
\* ------------------------------------------------------------------------
Rows == 4

MaxLen == 5

\* ------------------------------------------------------------------------
\* Generic helpers
\* ------------------------------------------------------------------------
None == "None"

Abs(x) == IF x < 0 THEN -x ELSE x

Range(s) == {s[i] : i \in DOMAIN s}

\* ------------------------------------------------------------------------
\* Breadboard geometry (Breadboard.__init__, _build_geometry)
\* ------------------------------------------------------------------------
cols_left == 5

cols_right == 5

trough_cols == <<5, 6>>

total_cols == cols_left + 2 + cols_right

left_rail_cols == <<-4, -3>>

right_rail_cols == <<total_cols + 2, total_cols + 3>>

\* board holes in iteration order: row by row, trough columns skipped
holesSeq ==
    [i \in 1..(Rows * (cols_left + cols_right)) |->
        LET r == (i - 1) \div (cols_left + cols_right)
            k == (i - 1) % (cols_left + cols_right)
        IN  <<r, IF k < cols_left THEN k ELSE k + 2>>]

rails_vSeq ==
    [i \in 1..(2 * Rows) |->
        <<(i - 1) \div 2, IF (i - 1) % 2 = 0 THEN left_rail_cols[1] ELSE right_rail_cols[1]>>]

rails_gSeq ==
    [i \in 1..(2 * Rows) |->
        <<(i - 1) \div 2, IF (i - 1) % 2 = 0 THEN left_rail_cols[2] ELSE right_rail_cols[2]>>]

holes == Range(holesSeq)

rails_v == Range(rails_vSeq)

rails_g == Range(rails_gSeq)

\* the keys of bb.occ: every real hole
RealHoles == holes \cup rails_v \cup rails_g

\* strip_of_hole.get(h): the empty tuple stands for the missing entry
strip_of_hole(h) ==
    IF h \notin holes THEN <<>>
    ELSE IF h[2] < trough_cols[1]
         THEN [i \in 1..cols_left |-> <<h[1], i - 1>>]
         ELSE [i \in 1..cols_right |-> <<h[1], trough_cols[2] + i>>]

rail_of_hole(h) ==
    IF h \in rails_v THEN "V+" ELSE IF h \in rails_g THEN "GND" ELSE None

Empty == [typ |-> "empty", id |-> None]

EmptyBoard == [h \in RealHoles |-> Empty]

\* ------------------------------------------------------------------------
\* Union-find (class UF)
\* ------------------------------------------------------------------------
RECURSIVE find(_, _)
find(u, x) == IF u.parent[x] = x THEN x ELSE find(u, u.parent[x])

union(u, a, b) ==
    LET ra == find(u, a)
        rb == find(u, b)
    IN  IF ra = rb THEN u
        ELSE IF u.rank[ra] < u.rank[rb]
             THEN [u EXCEPT !.parent[ra] = rb]
        ELSE IF u.rank[ra] > u.rank[rb]
             THEN [u EXCEPT !.parent[rb] = ra]
        ELSE [u EXCEPT !.parent[rb] = ra, !.rank[ra] = @ + 1]

\* Breadboard._union_all: chain every hole of the list to the first one.
\* (The folds over the union-find compare each step's result with its input,
\* so that every union is carried out before the next one starts.)
RECURSIVE union_all_from(_, _, _)
union_all_from(u, base, hs) ==
    IF hs = <<>> THEN u
    ELSE LET v == union(u, base, Head(hs))
         IN  IF v = u THEN union_all_from(u, base, Tail(hs))
             ELSE union_all_from(v, base, Tail(hs))

union_all(u, hs) == IF hs = <<>> THEN u ELSE union_all_from(u, Head(hs), Tail(hs))

\* variant: only the two ends of a segment are unioned
union_ends(u, seg) == IF Len(seg) < 2 THEN u ELSE union(u, seg[1], seg[Len(seg)])

\* consecutive holes of one segment are unioned
RECURSIVE union_chain(_, _)
union_chain(u, seg) ==
    IF Len(seg) < 2 THEN u
    ELSE LET v == union(u, seg[1], seg[2])
         IN  IF v = u THEN union_chain(u, Tail(seg)) ELSE union_chain(v, Tail(seg))

RECURSIVE union_strips(_, _)
union_strips(u, r) ==
    IF r >= Rows THEN u
    ELSE LET v == union_all(union_all(u, strip_of_hole(<<r, 0>>)),
                            strip_of_hole(<<r, trough_cols[2] + 1>>))
         IN  IF v = u THEN union_strips(u, r + 1) ELSE union_strips(v, r + 1)

\* variant: the strips are united, the two rails are left as single holes
init_uf_strips_only ==
    LET fresh == [parent |-> [h \in RealHoles |-> h], rank |-> [h \in RealHoles |-> 0]]
    IN  union_strips(fresh, 0)

\* Breadboard._init_uf
init_uf ==
    LET fresh == [parent |-> [h \in RealHoles |-> h], rank |-> [h \in RealHoles |-> 0]]
    IN  union_all(union_all(union_strips(fresh, 0), rails_vSeq), rails_gSeq)

\* Breadboard.rebuild_union_find: bare board, then every segment of every net
RECURSIVE union_segs(_, _)
union_segs(u, segs) ==
    IF segs = <<>> THEN u
    ELSE LET v == union_chain(u, Head(segs))
         IN  IF v = u THEN union_segs(u, Tail(segs)) ELSE union_segs(v, Tail(segs))

RECURSIVE union_nets(_, _, _)
union_nets(u, ns, order) ==
    IF order = <<>> THEN u
    ELSE LET v == union_segs(u, ns[Head(order)].seg_paths)
         IN  IF v = u THEN union_nets(u, ns, Tail(order)) ELSE union_nets(v, ns, Tail(order))

rebuild_union_find(ns, order) == union_nets(init_uf, ns, order)

\* ------------------------------------------------------------------------
\* Occupancy / claim helpers (class Breadboard)
\* ------------------------------------------------------------------------
IsEmpty(o, h) == o[h].typ = "empty"

SetAll(o, hs, v) == [h \in DOMAIN o |-> IF h \in hs THEN v ELSE o[h]]

\* variant: the holes are marked while they are checked, so a failing claim
\* keeps the marks it made
claim_component_partial(o, comp_id, body_holes, pin_holes) ==
    LET marked == [h \in DOMAIN o |->
                      IF ~IsEmpty(o, h) THEN o[h]
                      ELSE IF h \in Range(pin_holes) THEN [typ |-> "comp_pin", id |-> comp_id]
                      ELSE IF h \in Range(body_holes) THEN [typ |-> "comp_body", id |-> comp_id]
                      ELSE o[h]]
    IN  [ok |-> \A h \in Range(body_holes \o pin_holes) : IsEmpty(o, h), occ |-> marked]

\* body_holes and pin_holes are lists; the pins are marked last
claim_component(o, comp_id, body_holes, pin_holes) ==
    IF \E h \in Range(body_holes \o pin_holes) : ~IsEmpty(o, h)
    THEN [ok |-> FALSE, occ |-> o]
    ELSE [ok |-> TRUE,
          occ |-> [h \in DOMAIN o |->
                     IF h \in Range(pin_holes) THEN [typ |-> "comp_pin", id |-> comp_id]
                     ELSE IF h \in Range(body_holes) THEN [typ |-> "comp_body", id |-> comp_id]
                     ELSE o[h]]]

release_component(o, body_holes, pin_holes) ==
    SetAll(o, Range(body_holes \o pin_holes), Empty)

\* variant: every hole of the segment is marked as an end
claim_wire_segment_all_ends(o, seg_id, path_holes) ==
    IF Len(path_holes) < 2 THEN [ok |-> FALSE, occ |-> o]
    ELSE IF \E h \in Range(path_holes) : ~IsEmpty(o, h) THEN [ok |-> FALSE, occ |-> o]
    ELSE [ok |-> TRUE,
          occ |-> [h \in DOMAIN o |->
                     IF h \in Range(path_holes) THEN [typ |-> "wire_end", id |-> seg_id]
                     ELSE o[h]]]

claim_wire_segment(o, seg_id, path_holes) ==
    IF Len(path_holes) < 2 THEN [ok |-> FALSE, occ |-> o]
    ELSE IF \E h \in Range(path_holes) : ~IsEmpty(o, h) THEN [ok |-> FALSE, occ |-> o]
    ELSE [ok |-> TRUE,
          occ |-> [h \in DOMAIN o |->
                     IF h \in Range(path_holes)
                     THEN (IF h = path_holes[1] \/ h = path_holes[Len(path_holes)]
                           THEN [typ |-> "wire_end", id |-> seg_id]
                           ELSE [typ |-> "wire_body", id |-> seg_id])
                     ELSE o[h]]]

release_wire_segment(o, path_holes) == SetAll(o, Range(path_holes), Empty)

hole_seq_for_net_anchor(anchor) ==
    IF anchor = "V+" THEN rails_vSeq ELSE IF anchor = "GND" THEN rails_gSeq ELSE <<>>

frontier_of_anchor(o, anchor) ==
    SelectSeq(hole_seq_for_net_anchor(anchor), LAMBDA h : IsEmpty(o, h))

frontier_of_hole(o, hole) ==
    IF hole \in rails_v \/ hole \in rails_g
    THEN SelectSeq(IF hole \in rails_v THEN rails_vSeq ELSE rails_gSeq,
                   LAMBDA h : IsEmpty(o, h))
    ELSE IF strip_of_hole(hole) = <<>> THEN <<>>
    ELSE SelectSeq(strip_of_hole(hole), LAMBDA h : IsEmpty(o, h) /\ h # hole)

RECURSIVE frontier_of_group(_, _)
frontier_of_group(o, group) ==
    IF group = <<>> THEN <<>>
    ELSE frontier_of_hole(o, Head(group)) \o frontier_of_group(o, Tail(group))

\* ------------------------------------------------------------------------
\* Passive.legal_placements
\* ------------------------------------------------------------------------
placement_at(hole, length, orientation) ==
    LET dr == IF orientation = "h" THEN 0 ELSE 1
        dc == IF orientation = "h" THEN 1 ELSE 0
        body == [i \in 1..length |-> <<hole[1] + dr * (i - 1), hole[2] + dc * (i - 1)>>]
    IN  [anchor |-> hole, body |-> body, pins |-> <<body[1], body[length]>>]

\* variant: one body hole on a half is enough
one_side_some(body) ==
    \/ \E i \in DOMAIN body : body[i][2] < trough_cols[1]
    \/ \E i \in DOMAIN body : body[i][2] > trough_cols[2]

one_side(body) ==
    \/ \A i \in DOMAIN body : body[i][2] < trough_cols[1]
    \/ \A i \in DOMAIN body : body[i][2] > trough_cols[2]

strip_has_room(o, pin, pins) ==
    LET strip == strip_of_hole(pin)
    IN  strip = <<>> \/
        Cardinality({i \in DOMAIN strip : IsEmpty(o, strip[i]) /\ strip[i] \notin Range(pins)}) >= 1

placement_legal(o, p) ==
    /\ p.body[Len(p.body)] \in DOMAIN o
    /\ one_side(p.body)
    /\ strip_has_room(o, p.pins[1], p.pins)
    /\ strip_has_room(o, p.pins[2], p.pins)

legal_placements(o, length, orientation) ==
    SelectSeq([i \in DOMAIN holesSeq |-> placement_at(holesSeq[i], length, orientation)],
              LAMBDA p : placement_legal(o, p))

\* ------------------------------------------------------------------------
\* Routing helpers (class PnR)
\* ------------------------------------------------------------------------
Step(a, b) ==
    IF b[1] - a[1] # 0
    THEN <<IF b[1] - a[1] > 0 THEN 1 ELSE -1, 0>>
    ELSE <<0, IF b[2] - a[2] > 0 THEN 1 ELSE -1>>

holes_along_edge(o, a, b) ==
    LET length == IF Abs(b[1] - a[1]) > Abs(b[2] - a[2])
                  THEN Abs(b[1] - a[1]) ELSE Abs(b[2] - a[2])
        st == Step(a, b)
    IN  SelectSeq([i \in 1..(length + 1) |->
                      <<a[1] + st[1] * (i - 1), a[2] + st[2] * (i - 1)>>],
                  LAMBDA h : h \in DOMAIN o)

aligned(a, b) == a[1] = b[1] \/ a[2] = b[2]

Manhattan(a, b) == Abs(a[1] - b[1]) + Abs(a[2] - b[2])

\* variant: any length up to the longest jumper
length_ok_upto(wl, a, b) == aligned(a, b) /\ Manhattan(a, b) <= wl[Len(wl)]

length_ok(wl, a, b) == aligned(a, b) /\ Manhattan(a, b) \in Range(wl)

\* an optional list of edges: NoPath is Python's None
NoPath == [found |-> FALSE, edges |-> <<>>]

Path(es) == [found |-> TRUE, edges |-> es]

\* pairs are generated src-major, sorted stably by length; the first pair of
\* a permitted length whose real holes are all empty wins
find_straight_edge(o, wl, src_frontier, dst_frontier) ==
    LET good == {p \in (DOMAIN src_frontier) \X (DOMAIN dst_frontier) :
                    LET s == src_frontier[p[1]]
                        d == dst_frontier[p[2]]
                    IN  /\ aligned(s, d)
                        /\ length_ok(wl, s, d)
                        /\ \A h \in Range(holes_along_edge(o, s, d)) : IsEmpty(o, h)}
        len(p) == Manhattan(src_frontier[p[1]], dst_frontier[p[2]])
        first(p, q) == \/ len(p) < len(q)
                       \/ len(p) = len(q) /\ p[1] < q[1]
                       \/ len(p) = len(q) /\ p[1] = q[1] /\ p[2] <= q[2]
    IN  IF good = {} THEN NoPath
        ELSE LET best == CHOOSE p \in good : \A q \in good : first(p, q)
             IN  Path(<< <<src_frontier[best[1]], dst_frontier[best[2]]>> >>)

Dirs == << <<0, 1>>, <<0, -1>>, <<1, 0>>, <<-1, 0>> >>

\* g[h] of the BFS: empty real holes one permitted length away, lengths
\* outermost, directions innermost
neighbors(o, wl, h) ==
    SelectSeq([i \in 1..(Len(wl) * 4) |->
                  LET L == wl[((i - 1) \div 4) + 1]
                      d == Dirs[((i - 1) % 4) + 1]
                  IN  <<h[1] + d[1] * L, h[2] + d[2] * L>>],
              LAMBDA n : n \in DOMAIN o /\ IsEmpty(o, n))

max_visit == 2000

\* the unseen neighbours vs of u, each once and in order, join the queue with
\* predecessor u
bfs_visit(qs, u, vs) ==
    LET keep == {i \in DOMAIN vs : /\ vs[i] \notin DOMAIN qs.seen
                                   /\ \A j \in 1..(i - 1) : vs[j] # vs[i]}
        new == [n \in 1..Cardinality(keep) |->
                   vs[CHOOSE i \in keep : Cardinality({j \in keep : j <= i}) = n]]
    IN  [q |-> qs.q \o new, seen |-> qs.seen @@ [h \in Range(new) |-> u]]

\* one pass of the while loop: pop u, count the visit, stop on the cap or on a
\* destination, otherwise enqueue the unseen neighbours of u
bfs_step(o, wl, st, dst_set) ==
    IF st.done THEN st
    ELSE IF st.q = <<>> THEN [st EXCEPT !.done = TRUE]
    ELSE LET u == Head(st.q)
         IN  IF st.visits + 1 > max_visit THEN [st EXCEPT !.done = TRUE]
             ELSE IF u \in dst_set
                  THEN [st EXCEPT !.done = TRUE, !.found = TRUE, !.target = u]
             ELSE LET qs == bfs_visit([q |-> Tail(st.q), seen |-> st.seen], u,
                                      neighbors(o, wl, u))
                  IN  [st EXCEPT !.q = qs.q, !.seen = qs.seen, !.visits = @ + 1]

\* the while loop: bfs_loop(.., k) makes up to 2^k passes, each half run to
\* its end before the next one starts; the loop has ended after at most
\* max_visit + 1 passes
RECURSIVE bfs_loop(_, _, _, _, _)
bfs_loop(o, wl, st, dst_set, k) ==
    IF k = 0 THEN bfs_step(o, wl, st, dst_set)
    ELSE LET half == bfs_loop(o, wl, st, dst_set, k - 1)
         IN  IF half.done THEN half ELSE bfs_loop(o, wl, half, dst_set, k - 1)

RECURSIVE bfs_rev(_, _)
bfs_rev(seen, cur) ==
    IF seen[cur] = <<>> THEN <<cur>> ELSE Append(bfs_rev(seen, seen[cur]), cur)

\* the sources enter the queue in frontier order (duplicates included) with
\* no predecessor, written <<>>
shortest_path_by_segments(o, wl, src_frontier, dst_frontier) ==
    LET srcs == SelectSeq(src_frontier, LAMBDA s : IsEmpty(o, s))
        seen0 == [s \in Range(srcs) |-> <<>>]
        dst_set == {d \in Range(dst_frontier) : IsEmpty(o, d)}
        st0 == [q |-> srcs, seen |-> seen0, visits |-> 0,
                done |-> FALSE, found |-> FALSE, target |-> <<>>]
        res == bfs_loop(o, wl, st0, dst_set, 11)
    IN  IF ~res.found THEN NoPath
        ELSE LET rev == bfs_rev(res.seen, res.target)
             IN  Path([i \in 1..(Len(rev) - 1) |-> <<rev[i], rev[i + 1]>>])

find_path_edges(o, wl, src_frontier, dst_frontier) ==
    IF Range(src_frontier) \cap Range(dst_frontier) # {} THEN Path(<<>>)
    ELSE LET e == find_straight_edge(o, wl, src_frontier, dst_frontier)
         IN  IF e.found THEN e
             ELSE shortest_path_by_segments(o, wl, src_frontier, dst_frontier)

SegName(n) == "seg" \o ToString(n)

\* variant: the rail rule is applied to the two endpoints only
rail_rule_ok_ends(net_name, hs) ==
    \A idx \in {1, Len(hs)} :
        rail_of_hole(hs[idx]) # None =>
            /\ net_name \in {"V+", "GND"}
            /\ rail_of_hole(hs[idx]) = net_name

\* the rail rule of commit_path for the real holes of one edge
rail_rule_ok(net_name, hs) ==
    \A idx \in DOMAIN hs :
        rail_of_hole(hs[idx]) # None =>
            /\ idx = 1 \/ idx = Len(hs)
            /\ net_name \in {"V+", "GND"}
            /\ rail_of_hole(hs[idx]) = net_name

edge_ok(o, net_name, e) ==
    /\ aligned(e[1], e[2])
    /\ rail_rule_ok(net_name, holes_along_edge(o, e[1], e[2]))
    /\ \A h \in Range(holes_along_edge(o, e[1], e[2])) : IsEmpty(o, h)

\* the rollback of commit_path: the slice seg_paths[-n:] is released and one
\* entry is popped per slice element
RECURSIVE release_segs(_, _)
release_segs(o, segs) ==
    IF segs = <<>> THEN o ELSE release_segs(release_wire_segment(o, Head(segs)), Tail(segs))

commit_rollback(c, n) ==
    LET k == IF n < Len(c.seg_paths) THEN n ELSE Len(c.seg_paths)
        keep == Len(c.seg_paths) - k
    IN  [c EXCEPT !.ok = FALSE,
                  !.occ = release_segs(c.occ, SubSeq(c.seg_paths, keep + 1, Len(c.seg_paths))),
                  !.seg_paths = SubSeq(c.seg_paths, 1, keep)]

\* the claim loop of commit_path; c = [ok, occ, seg_paths, uf, seg_id_ctr]
RECURSIVE claim_segments(_, _, _)
claim_segments(c, todo, n) ==
    IF todo = <<>> THEN c
    ELSE LET cl == claim_wire_segment(c.occ, SegName(c.seg_id_ctr), Head(todo))
             c1 == [c EXCEPT !.seg_id_ctr = @ + 1]
         IN  IF ~cl.ok THEN commit_rollback(c1, n)
             ELSE claim_segments([c1 EXCEPT !.occ = cl.occ,
                                            !.seg_paths = Append(@, Head(todo)),
                                            !.uf = union_chain(@, Head(todo))],
                                 Tail(todo), n)

commit_path(c, net_name, path_edges) ==
    IF path_edges = <<>> THEN [c EXCEPT !.ok = FALSE]
    ELSE IF \E i \in DOMAIN path_edges : ~edge_ok(c.occ, net_name, path_edges[i])
    THEN [c EXCEPT !.ok = FALSE]
    ELSE claim_segments([c EXCEPT !.ok = TRUE],
                        [i \in DOMAIN path_edges |->
                            holes_along_edge(c.occ, path_edges[i][1], path_edges[i][2])],
                        Len(path_edges))

\* variant: the holes are released, the list of segments is kept
release_net_wires_listed(r, name) ==
    [r EXCEPT !.occ = release_segs(r.occ, r.nets[name].seg_paths)]

\* release_net_wires on the search record r = [ok, occ, nets, uf, seg_id_ctr]
release_net_wires(r, name) ==
    [r EXCEPT !.occ = release_segs(r.occ, r.nets[name].seg_paths),
              !.nets[name].seg_paths = <<>>]

\* one materialised hole per fixed anchor: the first hole of the rail
anchor_holes(net) ==
    LET as == SelectSeq(net.fixed_anchors, LAMBDA a : hole_seq_for_net_anchor(a) # <<>>)
    IN  [i \in DOMAIN as |-> hole_seq_for_net_anchor(as[i])[1]]

\* variant: any non-empty set of representatives is accepted
net_satisfied_any(u, net) ==
    Cardinality({find(u, h) : h \in Range(net.terms) \cup Range(anchor_holes(net))}) >= 1

net_satisfied(u, net) ==
    Cardinality({find(u, h) : h \in Range(net.terms) \cup Range(anchor_holes(net))}) = 1

\* rep_groups: a dict keyed by representative, in insertion order
RECURSIVE rep_groups(_, _, _)
rep_groups(groups, u, items) ==
    IF items = <<>> THEN groups
    ELSE LET rep == find(u, Head(items))
             at == {i \in DOMAIN groups : groups[i].rep = rep}
         IN  IF at = {}
             THEN rep_groups(Append(groups, [rep |-> rep, members |-> <<Head(items)>>]),
                             u, Tail(items))
             ELSE rep_groups([groups EXCEPT ![CHOOSE i \in at : TRUE].members =
                                                Append(@, Head(items))],
                             u, Tail(items))

\* self.bb.rebuild_union_find(self.nets) on the search record
rebuilt(r, order) == [r EXCEPT !.uf = rebuild_union_find(r.nets, order)]

\* release_net_wires(net); return False
route_failed(r, name) == [release_net_wires(r, name) EXCEPT !.ok = FALSE]

\* the search record after commit_path has run with outcome c
with_commit(r, c, name) ==
    [r EXCEPT !.occ = c.occ, !.nets[name].seg_paths = c.seg_paths,
              !.uf = c.uf, !.seg_id_ctr = c.seg_id_ctr]

RECURSIVE route_groups(_, _, _, _, _, _)

\* the group loop of route_net, split at the values it computes once per
\* iteration: the outcome c of commit_path, ...
route_committed(r, c, wl, order, name, base_group, rest) ==
    IF ~c.ok THEN route_failed(with_commit(r, c, name), name)
    ELSE route_groups(rebuilt(with_commit(r, c, name), order),
                      wl, order, name, base_group, rest)

\* ... the path returned by find_path_edges, ...
route_on_path(r, path, wl, order, name, base_group, rest) ==
    IF ~path.found THEN route_failed(r, name)
    ELSE IF path.edges = <<>>
    THEN route_groups(rebuilt(r, order), wl, order, name, base_group, rest)
    ELSE route_committed(r,
                         commit_path([ok |-> TRUE, occ |-> r.occ,
                                      seg_paths |-> r.nets[name].seg_paths,
                                      uf |-> r.uf, seg_id_ctr |-> r.seg_id_ctr],
                                     name, path.edges),
                         wl, order, name, base_group, rest)

\* ... and the two frontiers
route_between(r, src_frontier, dst_frontier, wl, order, name, base_group, rest) ==
    IF src_frontier = <<>> \/ dst_frontier = <<>> THEN route_failed(r, name)
    ELSE route_on_path(r, find_path_edges(r.occ, wl, src_frontier, dst_frontier),
                       wl, order, name, base_group, rest)

route_groups(r, wl, order, name, base_group, rest) ==
    IF rest = <<>> THEN [r EXCEPT !.ok = net_satisfied(r.uf, r.nets[name])]
    ELSE route_between(r, frontier_of_group(r.occ, base_group),
                       frontier_of_group(r.occ, Head(rest).members),
                       wl, order, name, base_group \o Head(rest).members, Tail(rest))

\* route_net after its first rebuild_union_find, and after the grouping
route_grouped(r0, groups, wl, order, name) ==
    IF Len(groups) <= 1 THEN [r0 EXCEPT !.ok = TRUE]
    ELSE route_groups(r0, wl, order, name, groups[1].members, Tail(groups))

route_rebuilt(r0, wl, order, name) ==
    IF net_satisfied(r0.uf, r0.nets[name]) THEN [r0 EXCEPT !.ok = TRUE]
    ELSE route_grouped(r0,
                       rep_groups(<<>>, r0.uf,
                                  r0.nets[name].terms \o anchor_holes(r0.nets[name])),
                       wl, order, name)

route_net(r, wl, order, name) == route_rebuilt(rebuilt(r, order), wl, order, name)

\* variant: only nets that carry wires are compared
shorts_exist_wired(u, ns, order) ==
    LET names == SelectSeq(order, LAMBDA n : ns[n].terms # <<>> /\ ns[n].seg_paths # <<>>)
    IN  \E i \in DOMAIN names : \E j \in DOMAIN names :
            /\ i < j
            /\ \E a \in Range(ns[names[i]].terms) : \E b \in Range(ns[names[j]].terms) :
                   find(u, a) = find(u, b)

shorts_exist(u, ns, order) ==
    LET names == SelectSeq(order, LAMBDA n : ns[n].terms # <<>>)
    IN  \E i \in DOMAIN names : \E j \in DOMAIN names :
            /\ i < j
            /\ \E a \in Range(ns[names[i]].terms) : \E b \in Range(ns[names[j]].terms) :
                   find(u, a) = find(u, b)

\* ------------------------------------------------------------------------
\* Placement helpers (class PnR)
\* ------------------------------------------------------------------------
NoHole == <<>>

Unplaced(c) == [c EXCEPT !.anchor = NoHole, !.body = <<>>, !.pins = <<>>]

strip_has_other_net(ns, strip, intended_name) ==
    /\ strip # <<>>
    /\ \E name \in DOMAIN ns :
          /\ name # intended_name
          /\ \E t \in Range(ns[name].terms) : strip_of_hole(t) = strip

target_frontier(o, ns, net_name) ==
    IF net_name = "V+" THEN frontier_of_anchor(o, "V+")
    ELSE IF net_name = "GND" THEN frontier_of_anchor(o, "GND")
    ELSE IF net_name \notin DOMAIN ns THEN <<>>
    ELSE frontier_of_group(o, ns[net_name].terms)

\* variant: the strips are not examined, only the reachability of the targets
forward_check_reach_only(o, ns, wl, comp, placement) ==
    LET pin_a == placement.pins[1]
        pin_b == placement.pins[2]
        dst_a == target_frontier(o, ns, comp.net_a)
        dst_b == target_frontier(o, ns, comp.net_b)
    IN  /\ dst_a = <<>> \/ find_straight_edge(o, wl, frontier_of_hole(o, pin_a), dst_a).found
        /\ dst_b = <<>> \/ find_straight_edge(o, wl, frontier_of_hole(o, pin_b), dst_b).found

forward_check(o, ns, wl, comp, placement) ==
    LET pin_a == placement.pins[1]
        pin_b == placement.pins[2]
        strip_a == strip_of_hole(pin_a)
        strip_b == strip_of_hole(pin_b)
        dst_a == target_frontier(o, ns, comp.net_a)
        dst_b == target_frontier(o, ns, comp.net_b)
    IN  /\ ~(strip_a # <<>> /\ strip_b # <<>> /\ strip_a = strip_b /\ comp.net_a # comp.net_b)
        /\ ~strip_has_other_net(ns, strip_a, comp.net_a)
        /\ ~strip_has_other_net(ns, strip_b, comp.net_b)
        /\ dst_a = <<>> \/ find_straight_edge(o, wl, frontier_of_hole(o, pin_a), dst_a).found
        /\ dst_b = <<>> \/ find_straight_edge(o, wl, frontier_of_hole(o, pin_b), dst_b).found

\* component names in Python string order
NameOrder == <<"C1", "L1", "LED", "R1", "R2", "R3">>

NameRank(n) == CHOOSE i \in DOMAIN NameOrder : NameOrder[i] = n

IsRail(n) == n \in {"V+", "GND"}

rail_weight(c) == (IF IsRail(c.net_a) THEN 1 ELSE 0) + (IF IsRail(c.net_b) THEN 1 ELSE 0)

\* c comes strictly before d under the key (-rail_weight, -length, name)
comp_before(c, d) ==
    \/ rail_weight(c) > rail_weight(d)
    \/ rail_weight(c) = rail_weight(d) /\ c.length > d.length
    \/ rail_weight(c) = rail_weight(d) /\ c.length = d.length
          /\ NameRank(c.name) < NameRank(d.name)

\* order_components: sorted() is stable, so an element's position is the
\* number of elements that come before it by key, or tie with it and precede it
order_components(cs) ==
    LET pos(i) == Cardinality({j \in DOMAIN cs :
                                 \/ comp_before(cs[j], cs[i])
                                 \/ ~comp_before(cs[i], cs[j]) /\ j < i}) + 1
    IN  [k \in DOMAIN cs |-> CHOOSE i \in DOMAIN cs : pos(i) = k]

left_rail_col(which) == IF which = "V+" THEN left_rail_cols[1] ELSE left_rail_cols[2]

right_rail_col(which) == IF which = "V+" THEN right_rail_cols[1] ELSE right_rail_cols[2]

dist_to_rail(hole, which) ==
    LET dl == Abs(hole[2] - left_rail_col(which))
        dr == Abs(hole[2] - right_rail_col(which))
    IN  IF dl < dr THEN dl ELSE dr

MinOf(S) == CHOOSE x \in S : \A y \in S : x <= y

\* pairs (a, b) for which the double 0.3*a + 0.3*b is one ulp below the
\* double that other pairs of the same sum produce
FloatLow ==
    { <<0, 6>>, <<0, 9>>, <<0, 12>>, <<1, 6>>, <<1, 8>>, <<1, 9>>, <<1, 11>>, <<1, 12>>,
      <<2, 4>>, <<2, 12>>, <<3, 3>>, <<3, 4>>, <<3, 6>>, <<3, 9>>, <<3, 11>>, <<4, 2>>,
      <<4, 3>>, <<4, 8>>, <<4, 9>>, <<5, 9>>, <<6, 0>>, <<6, 1>>, <<6, 3>>, <<6, 6>>,
      <<6, 8>>, <<6, 12>>, <<8, 1>>, <<8, 4>>, <<8, 6>>, <<9, 0>>, <<9, 1>>, <<9, 3>>,
      <<9, 4>>, <<9, 5>>, <<9, 9>>, <<9, 12>>, <<11, 1>>, <<11, 3>>, <<12, 0>>, <<12, 1>>,
      <<12, 2>>, <<12, 6>>, <<12, 9>> }

\* placement_score in twentieths; one unit is taken off where the float sum
\* of two rail terms rounds down
pin_score(ns, net_name, pin) ==
    IF IsRail(net_name) THEN 6 * dist_to_rail(pin, net_name)
    ELSE IF net_name \in DOMAIN ns /\ ns[net_name].terms # <<>>
    THEN 20 * MinOf({Manhattan(pin, t) : t \in Range(ns[net_name].terms)})
    ELSE 0

placement_score(ns, comp, placement) ==
    pin_score(ns, comp.net_a, placement.pins[1]) + pin_score(ns, comp.net_b, placement.pins[2])
    - (IF IsRail(comp.net_a) /\ IsRail(comp.net_b)
          /\ <<dist_to_rail(placement.pins[1], comp.net_a),
               dist_to_rail(placement.pins[2], comp.net_b)>> \in FloatLow
       THEN 1 ELSE 0)

\* candidates.sort(key=placement_score): list.sort is stable
sort_cands(ns, comp, ps) ==
    LET sc == [i \in DOMAIN ps |-> placement_score(ns, comp, ps[i])]
        pos(i) == Cardinality({j \in DOMAIN ps :
                                 sc[j] < sc[i] \/ (sc[j] = sc[i] /\ j < i)}) + 1
    IN  [k \in DOMAIN ps |-> ps[CHOOSE i \in DOMAIN ps : pos(i) = k]]

K == 80

candidates(o, ns, comp) ==
    LET all == sort_cands(ns, comp, legal_placements(o, comp.length, comp.orientation))
    IN  IF Len(all) > K THEN SubSeq(all, 1, K) ELSE all

RECURSIVE remove_first(_, _)
remove_first(s, x) ==
    IF s = <<>> THEN <<>>
    ELSE IF Head(s) = x THEN Tail(s) ELSE <<Head(s)>> \o remove_first(Tail(s), x)

\* bind_pins: the pin holes join the term lists of the component's nets
bind_pins(ns, comp, pins) ==
    LET n1 == IF comp.net_a \in DOMAIN ns
              THEN [ns EXCEPT ![comp.net_a].terms = Append(@, pins[1])] ELSE ns
    IN  IF comp.net_b \in DOMAIN n1
        THEN [n1 EXCEPT ![comp.net_b].terms = Append(@, pins[2])] ELSE n1

\* variant: only the first pin leaves its net
unbind_pins_first(ns, comp, pins) ==
    IF comp.net_a \in DOMAIN ns
    THEN [ns EXCEPT ![comp.net_a].terms = remove_first(@, pins[1])] ELSE ns

\* the tail of the candidate loop: each pin hole leaves its net's term list
unbind_pins(ns, comp, pins) ==
    LET n1 == IF comp.net_a \in DOMAIN ns
              THEN [ns EXCEPT ![comp.net_a].terms = remove_first(@, pins[1])] ELSE ns
    IN  IF comp.net_b \in DOMAIN n1
        THEN [n1 EXCEPT ![comp.net_b].terms = remove_first(@, pins[2])] ELSE n1

\* ------------------------------------------------------------------------
\* G-code generation (generate_gcode_from_solution)
\*
\* A name is the sequence of its characters.  A length is an integer number
\* of thousandths of a millimetre, which is what round(.., 3) keeps; a mean
\* is the pair <<sum, count>>.  A line of the program is a tuple: its fixed
\* text followed by the numbers formatted into it.
\* ------------------------------------------------------------------------
Digits == <<"0", "1", "2", "3", "4", "5", "6", "7", "8", "9">>

Uppers == <<"A", "B", "C", "D", "E", "F", "G", "H", "I", "J", "K", "L", "M",
            "N", "O", "P", "Q", "R", "S", "T", "U", "V", "W", "X", "Y", "Z">>

IsDigit(c) == c \in Range(Digits)

IsUpper(c) == c \in Range(Uppers)

\* code point order of the characters in use: digits before upper case
CharCode(c) == CHOOSE i \in DOMAIN (Digits \o Uppers) : (Digits \o Uppers)[i] = c

DigitVal(c) == (CHOOSE i \in DOMAIN Digits : Digits[i] = c) - 1

RECURSIVE IntOf(_)
IntOf(ds) == IF ds = <<>> THEN 0
             ELSE 10 * IntOf(SubSeq(ds, 1, Len(ds) - 1)) + DigitVal(ds[Len(ds)])

\* str(n) for 0 <= n < 100
StrOf(n) == IF n < 10 THEN <<Digits[n + 1]>>
            ELSE <<Digits[(n \div 10) + 1], Digits[(n % 10) + 1]>>

\* Python's order of str
StrLess(a, b) ==
    \/ \E k \in 1..Len(a) :
          /\ k <= Len(b)
          /\ \A i \in 1..(k - 1) : a[i] = b[i]
          /\ CharCode(a[k]) < CharCode(b[k])
    \/ Len(a) < Len(b) /\ \A i \in 1..Len(a) : a[i] = b[i]

sorted(S) ==
    [i \in 1..Cardinality(S) |->
        CHOOSE k \in S : Cardinality({j \in S : StrLess(j, k)}) = i - 1]

X_ORIGIN_PLACEMENT == 107500

Y_ORIGIN_PLACEMENT == 190000

X_ORIGIN_PICKUP == 156500

Y_ORIGIN_PICKUP == 141500

PLACE_HEIGHT == 14

PICKUP_HEIGHT == 14

PASSIVE_HEIGHT == 45

pitch == 2540

col_dict_0 == (<<"R">> :> 0) @@ (<<"C">> :> 2) @@ (<<"L">> :> 4) @@
              (<<"L", "E", "D">> :> 6) @@ (<<"W", "6">> :> 8)

len_dict_0 == (<<"R">> :> 6) @@ (<<"C">> :> 6) @@ (<<"L">> :> 6) @@
              (<<"L", "E", "D">> :> 6) @@ (<<"W", "6">> :> 6)

wires_used_0 == (<<"W", "6">> :> 0)

RECURSIVE Sum(_)
Sum(xs) == IF xs = <<>> THEN 0 ELSE Head(xs) + Sum(Tail(xs))

column_to_x(col_f) == <<col_f[1] * pitch, col_f[2]>>

row_to_y(row) == <<row[1] * pitch, row[2]>>

\* the mean of p[0] and the mean of p[1]
convertCornersToCenter(corners) ==
    IF corners = <<>> THEN << <<0, 1>>, <<0, 1>> >>
    ELSE << <<Sum([i \in DOMAIN corners |-> corners[i][1]]), Len(corners)>>,
            <<Sum([i \in DOMAIN corners |-> corners[i][2]]), Len(corners)>> >>

\* round(origin + q, 3) and round(origin - q, 3) for a quotient q = <<n, d>>
round3_plus(origin, q) == (2 * (origin * q[2] + q[1]) + q[2]) \div (2 * q[2])

round3_minus(origin, q) == (2 * (origin * q[2] - q[1]) + q[2]) \div (2 * q[2])

\* sendMoveCommand and actuateDropper for one board
move_lines(bed_x, bed_y) ==
    << <<"G90">>, <<"G0 F6000 X Y", bed_x, bed_y>>, <<"G0 F6000 Z25">> >>

\* variant: after the pickup the nozzle is raised to Z25 only
pickup_lines_low ==
    << <<"G0 Z", PICKUP_HEIGHT>>, <<"VACUUM_ON">>, <<"G0 F6000 Z25">> >>

pickup_lines ==
    << <<"G0 Z", PICKUP_HEIGHT>>, <<"VACUUM_ON">>, <<"G0 Z", PASSIVE_HEIGHT>> >>

\* variant: the nozzle is raised before the vacuum is switched off
place_lines_raised ==
    << <<"G0 Z", PLACE_HEIGHT>>, <<"G0 Z", PASSIVE_HEIGHT>>, <<"VACUUM_OFF">> >>

place_lines ==
    << <<"G0 Z", PLACE_HEIGHT>>, <<"VACUUM_OFF">>, <<"G0 Z", PASSIVE_HEIGHT>> >>

\* re.match(r"^([A-Z]+)(\d+)$", comp_name): the number of leading upper-case
\* letters, or 0 if the name does not match
name_match(cs) ==
    LET ks == {k \in 1..(Len(cs) - 1) :
                  /\ \A i \in 1..k : IsUpper(cs[i])
                  /\ \A i \in (k + 1)..Len(cs) : IsDigit(cs[i])}
    IN  IF ks = {} THEN 0 ELSE CHOOSE k \in ks : TRUE

part_type(cs) == IF name_match(cs) = 0 THEN cs ELSE SubSeq(cs, 1, name_match(cs))

part_num(cs) ==
    IF name_match(cs) = 0 THEN 1 ELSE IntOf(SubSeq(cs, name_match(cs) + 1, Len(cs)))

\* the two tray corners of slot [lo, hi] of a part type
tray_center(cd, ld, type, lo, hi) ==
    convertCornersToCenter(<< <<cd[type], lo * (ld[type] - 1)>>,
                              <<cd[type], hi * (ld[type] - 1)>> >>)

\* one pickup/placement cycle: from the tray centre to the board centre
cycle_lines(pickup_center, board_center) ==
    move_lines(round3_plus(X_ORIGIN_PICKUP, column_to_x(pickup_center[1])),
               round3_minus(Y_ORIGIN_PICKUP, row_to_y(pickup_center[2])))
    \o pickup_lines
    \o move_lines(round3_plus(X_ORIGIN_PLACEMENT, column_to_x(board_center[1])),
                  round3_minus(Y_ORIGIN_PLACEMENT, row_to_y(board_center[2])))
    \o place_lines

\* the body of the component loop
component_lines(cd, ld, comp_name, pins) ==
    IF Len(pins) < 2 THEN <<>>
    ELSE IF part_type(comp_name) \notin DOMAIN cd \/ part_type(comp_name) \notin DOMAIN ld
    THEN <<>>
    ELSE cycle_lines(tray_center(cd, ld, part_type(comp_name),
                                 part_num(comp_name) - 1, part_num(comp_name)),
                     convertCornersToCenter(pins))

MaxOf(S) == CHOOSE x \in S : \A y \in S : y <= x

\* "W" followed by the extent of the wire along the coordinate that varies
wire_type(wire_holes) ==
    LET xs == {wire_holes[i][1] : i \in DOMAIN wire_holes}
        ys == {wire_holes[i][2] : i \in DOMAIN wire_holes}
        varying == IF Cardinality(xs) > 1 THEN xs ELSE ys
    IN  <<"W">> \o StrOf(MaxOf(varying) - MinOf(varying) + 1)

\* the body of the wire loop; local_wires_used is the copy the call works on
wire_lines(cd, ld, local_wires_used, wire_holes) ==
    IF wire_holes = <<>> THEN <<>>
    ELSE IF wire_type(wire_holes) \notin DOMAIN cd \/ wire_type(wire_holes) \notin DOMAIN ld
    THEN <<>>
    ELSE LET t == wire_type(wire_holes)
             slot_idx == IF t \in DOMAIN local_wires_used THEN local_wires_used[t] ELSE 0
         IN  cycle_lines(tray_center(cd, ld, t, slot_idx, slot_idx + 1),
                         convertCornersToCenter(wire_holes))

\* variant: the component loop ends at the first component whose type has no
\* tray entry
RECURSIVE component_lines_until_unknown(_, _, _, _)
component_lines_until_unknown(cd, ld, components, names) ==
    IF names = <<>> THEN <<>>
    ELSE IF part_type(Head(names)) \notin DOMAIN cd THEN <<>>
    ELSE component_lines(cd, ld, Head(names), components[Head(names)])
         \o component_lines_until_unknown(cd, ld, components, Tail(names))

RECURSIVE all_component_lines(_, _, _, _)
all_component_lines(cd, ld, components, names) ==
    IF names = <<>> THEN <<>>
    ELSE component_lines(cd, ld, Head(names), components[Head(names)])
         \o all_component_lines(cd, ld, components, Tail(names))

RECURSIVE all_wire_lines(_, _, _, _)
all_wire_lines(cd, ld, local_wires_used, wires) ==
    IF wires = <<>> THEN <<>>
    ELSE wire_lines(cd, ld, local_wires_used, Head(wires))
         \o all_wire_lines(cd, ld, local_wires_used, Tail(wires))

\* variant: the wire loop works on the module's wires_used itself and counts
\* every wire it takes
RECURSIVE wires_counted(_, _, _, _)
wires_counted(cd, ld, wu, wires) ==
    IF wires = <<>> THEN [text |-> <<>>, wires_used |-> wu]
    ELSE LET t == wire_type(Head(wires))
             ls == wire_lines(cd, ld, wu, Head(wires))
             wu1 == IF ls = <<>> THEN wu
                    ELSE [k \in DOMAIN wu \cup {t} |->
                             IF k = t THEN (IF t \in DOMAIN wu THEN wu[t] ELSE 0) + 1
                             ELSE wu[k]]
             rest == wires_counted(cd, ld, wu1, Tail(wires))
         IN  [text |-> ls \o rest.text, wires_used |-> rest.wires_used]

generate_gcode_shared(sol, cd, ld, wu) ==
    LET w == wires_counted(cd, ld, wu, sol.wires)
    IN  [text |-> << <<"G0 Z", PASSIVE_HEIGHT>> >>
                  \o all_component_lines(cd, ld, sol.components, sorted(DOMAIN sol.components))
                  \o w.text,
         wires_used |-> w.wires_used]

\* the text returned (a list of lines, each ended by a newline) and the
\* module's wires_used after the call: the wire loop reads a copy
generate_gcode_from_solution(sol, cd, ld, wu) ==
    [text |-> << <<"G0 Z", PASSIVE_HEIGHT>> >>
              \o all_component_lines(cd, ld, sol.components, sorted(DOMAIN sol.components))
              \o all_wire_lines(cd, ld, wu, sol.wires),
     wires_used |-> wu]

\* ------------------------------------------------------------------------
\* Inputs: the netlist translator's output (components of length 3, vertical,
\* internal nets sorted by name) and the permitted wire lengths
\* ------------------------------------------------------------------------
Comp(name) == [name |-> name, length |-> 3, orientation |-> "v"]

\* a component laid along a strip
CompH(name) == [name |-> name, length |-> 3, orientation |-> "h"]

Problems ==
    << [comps |-> <<Comp("R1")>>, nets |-> <<>>,
        bindings |-> [n \in {"R1"} |-> <<"V+", "GND">>]],
       [comps |-> <<Comp("R1"), Comp("R2")>>, nets |-> <<"N1">>,
        bindings |-> [n \in {"R1", "R2"} |->
                        IF n = "R1" THEN <<"V+", "N1">> ELSE <<"N1", "GND">>]],
       [comps |-> <<Comp("R1"), Comp("R2")>>, nets |-> <<"N1", "N2">>,
        bindings |-> [n \in {"R1", "R2"} |->
                        IF n = "R1" THEN <<"V+", "N1">> ELSE <<"N2", "V+">>]],
       [comps |-> <<Comp("R1")>>, nets |-> <<"N1">>,
        bindings |-> [n \in {"R1"} |-> <<"N1", "N1">>]],
       [comps |-> <<CompH("R1")>>, nets |-> <<"N1">>,
        bindings |-> [n \in {"R1"} |-> <<"N1", "GND">>]],
       [comps |-> <<Comp("R1")>>, nets |-> <<>>,
        bindings |-> [n \in {"R1"} |-> <<"GND", "GND">>]] >>

\* config.WIRE_LENGTHS and the Breadboard default, as sorted(set(...))
WireLengthChoices == { <<1, 2, 3>>, <<1, 3, 5>> }

NewNet(name, anchors) ==
    [name |-> name, terms |-> <<>>, fixed_anchors |-> anchors, seg_paths |-> <<>>]

VARIABLES
    problem,        \* index of the problem being solved
    wire_lengths,   \* bb.wire_lengths
    occ,            \* bb.occ
    uf,             \* bb.uf
    comps,          \* pnr.comps, the Passive objects
    nets,           \* pnr.nets, name -> Net
    net_order,      \* insertion order of the keys of pnr.nets
    pin_of_comp,    \* pnr.pin_of_comp
    seg_id_ctr,     \* pnr.seg_id_ctr
    ordered_comps,  \* indices of comps in placement order
    stack,          \* active _place_rec calls: candidates, loop index, occupancy at entry
    net_idx,        \* position of the routing loop of the leaf call
    pc,             \* control position
    result,         \* return value of place_and_route
    ret_occ,        \* occupancy at entry of the call that has just returned False
    run,            \* 1 in the first process run, 2 in a second run on the same input
    first,          \* what the first run did: key order of nets, result, layout
    col_dict,       \* module global col_dict: pickup-tray column of a part type
    len_dict,       \* module global len_dict: pickup-tray slot length of a part type
    wires_used,     \* module global wires_used: wires taken per wire type
    gcalls,         \* the calls of generate_gcode_from_solution made so far
    netlist,        \* the component lines of the netlist being translated
    pnr_inputs,     \* <<what netlist_to_pnr_inputs returned for it>>, <<>> before the call
    workflows,      \* orchestrator.workflows: the keys of the map in insertion order
    max_retries,    \* orchestrator.max_retries
    o_pc,           \* control position of runWorkflows
    wf_i,           \* position of the for loop in workflows
    attempt,        \* local attempt
    status,         \* workflow_state.status
    err_message,    \* workflow_state.err_message
    last_error_message, \* local last_error_message
    workflows_context,  \* workflow_state.workflows_context: name -> WorkflowContext
    events,         \* the calls of updateCallback made so far
    invocations,    \* the calls of workflow_module.run made so far, by workflow name
    ended           \* the workflows whose while loop was left, with the status then

\* the state of the place-and-route engine
pnr_vars == <<problem, wire_lengths, occ, uf, comps, nets, net_order, pin_of_comp,
              seg_id_ctr, ordered_comps, stack, net_idx, pc, result, ret_occ, run, first>>

\* the state of one call of WorkflowOrchestrator.runWorkflows
orch_vars == <<workflows, max_retries, o_pc, wf_i, attempt, status, err_message,
               last_error_message, workflows_context, events, invocations, ended>>

\* the module globals of the G-code generator, the state of the netlist
\* translation and the state of the orchestrator
io_vars == <<col_dict, len_dict, wires_used, gcalls, netlist, pnr_inputs, orch_vars>>

vars == <<pnr_vars, io_vars>>

Init ==
    /\ problem \in DOMAIN Problems
    /\ wire_lengths \in WireLengthChoices
    /\ occ = EmptyBoard
    /\ uf = init_uf
    /\ comps = [i \in DOMAIN Problems[problem].comps |->
                   [name |-> Problems[problem].comps[i].name,
                    length |-> Problems[problem].comps[i].length,
                    orientation |-> Problems[problem].comps[i].orientation,
                    net_a |-> None, net_b |-> None,
                    anchor |-> NoHole, body |-> <<>>, pins |-> <<>>]]
    /\ nets = [n \in Range(Problems[problem].nets) |-> NewNet(n, <<>>)]
    /\ net_order = Problems[problem].nets
    /\ pin_of_comp = [n \in {} |-> <<>>]
    /\ seg_id_ctr = 1
    /\ ordered_comps = <<>>
    /\ stack = <<>>
    /\ net_idx = 0
    /\ pc = "start"
    /\ result = None
    /\ ret_occ = EmptyBoard
    /\ run = 1
    /\ first = [net_order |-> <<>>, result |-> None, comps |-> <<>>,
                seg_paths |-> [n \in {} |-> <<>>]]
    /\ col_dict = col_dict_0
    /\ len_dict = len_dict_0
    /\ wires_used = wires_used_0
    /\ gcalls = <<>>
    /\ netlist = <<>>
    /\ pnr_inputs = <<>>
    /\ workflows = <<>>
    /\ max_retries = 0
    /\ o_pc = "idle"
    /\ wf_i = 0
    /\ attempt = 0
    /\ status = "pending"
    /\ err_message = ""
    /\ last_error_message = ""
    /\ workflows_context = [n \in {} |-> [cost |-> 0]]
    /\ events = <<>>
    /\ invocations = <<>>
    /\ ended = <<>>

\* the orders in which a set of rail names can be iterated
RailOrders(S) ==
    IF S = {} THEN {<<>>}
    ELSE IF Cardinality(S) = 1 THEN {<<CHOOSE x \in S : TRUE>>}
    ELSE {<<"V+", "GND">>, <<"GND", "V+">>}

\* place_and_route up to the call of _place_rec(0, ...)
PlaceAndRoute ==
    /\ pc = "start"
    /\ LET bound == [i \in DOMAIN comps |->
                       [comps[i] EXCEPT !.net_a = Problems[problem].bindings[comps[i].name][1],
                                        !.net_b = Problems[problem].bindings[comps[i].name][2]]]
           rails_used == {n \in {"V+", "GND"} :
                             \E i \in DOMAIN bound : bound[i].net_a = n \/ bound[i].net_b = n}
       IN  \E rails \in RailOrders(rails_used) :
             LET added == SelectSeq(rails, LAMBDA n : n \notin DOMAIN nets)
                 all == [n \in DOMAIN nets \cup Range(added) |->
                            IF n \in DOMAIN nets
                            THEN [nets[n] EXCEPT !.terms = <<>>, !.seg_paths = <<>>]
                            ELSE NewNet(n, <<n>>)]
             IN  /\ comps' = bound
                 /\ nets' = all
                 /\ net_order' = net_order \o added
                 /\ ordered_comps' = order_components(bound)
    /\ pc' = "enter"
    /\ UNCHANGED <<io_vars, problem, wire_lengths, run, first, occ, uf, pin_of_comp, seg_id_ctr, stack,
                   net_idx, result, ret_occ>>

Top == stack[Len(stack)]

CurIdx == ordered_comps[Len(stack)]

\* _place_rec(idx) for idx < len(ordered_comps): enumerate, sort and cap
EnterRec ==
    /\ pc = "enter"
    /\ Len(stack) < Len(ordered_comps)
    /\ stack' = Append(stack,
                       [cands |-> candidates(occ, nets, comps[ordered_comps[Len(stack) + 1]]),
                        i |-> 1, entry_occ |-> occ])
    /\ pc' = "loop"
    /\ UNCHANGED <<io_vars, problem, wire_lengths, run, first, occ, uf, comps, nets, net_order, pin_of_comp,
                   seg_id_ctr, ordered_comps, net_idx, result, ret_occ>>

NextCand == [stack EXCEPT ![Len(stack)].i = @ + 1]

\* try_place_component refuses the candidate: continue
ClaimFails ==
    /\ pc = "loop"
    /\ Top.i <= Len(Top.cands)
    /\ LET pl == Top.cands[Top.i]
       IN  ~claim_component(occ, comps[CurIdx].name, pl.body, pl.pins).ok
    /\ stack' = NextCand
    /\ UNCHANGED <<io_vars, problem, wire_lengths, run, first, occ, uf, comps, nets, net_order, pin_of_comp,
                   seg_id_ctr, ordered_comps, net_idx, pc, result, ret_occ>>

\* placed and bound, forward_check refuses: unbind, undo, next candidate
ForwardCheckFails ==
    /\ pc = "loop"
    /\ Top.i <= Len(Top.cands)
    /\ LET pl == Top.cands[Top.i]
           cl == claim_component(occ, comps[CurIdx].name, pl.body, pl.pins)
           bound == bind_pins(nets, comps[CurIdx], pl.pins)
       IN  /\ cl.ok
           /\ ~forward_check(cl.occ, bound, wire_lengths, comps[CurIdx], pl)
           /\ nets' = unbind_pins(bound, comps[CurIdx], pl.pins)
           /\ occ' = release_component(cl.occ, pl.body, pl.pins)
    /\ stack' = NextCand
    /\ UNCHANGED <<io_vars, problem, wire_lengths, run, first, uf, comps, net_order, pin_of_comp,
                   seg_id_ctr, ordered_comps, net_idx, pc, result, ret_occ>>

\* placed, bound and admitted: recurse into _place_rec(idx + 1)
Descend ==
    /\ pc = "loop"
    /\ Top.i <= Len(Top.cands)
    /\ LET pl == Top.cands[Top.i]
           cl == claim_component(occ, comps[CurIdx].name, pl.body, pl.pins)
           bound == bind_pins(nets, comps[CurIdx], pl.pins)
       IN  /\ cl.ok
           /\ forward_check(cl.occ, bound, wire_lengths, comps[CurIdx], pl)
           /\ occ' = cl.occ
           /\ nets' = bound
           /\ comps' = [comps EXCEPT ![CurIdx].anchor = pl.anchor,
                                     ![CurIdx].body = pl.body,
                                     ![CurIdx].pins = pl.pins]
           /\ pin_of_comp' = [n \in DOMAIN pin_of_comp \cup {comps[CurIdx].name} |->
                                 IF n = comps[CurIdx].name THEN pl.pins ELSE pin_of_comp[n]]
    /\ pc' = "enter"
    /\ UNCHANGED <<io_vars, problem, wire_lengths, run, first, uf, net_order, seg_id_ctr, ordered_comps,
                   stack, net_idx, result, ret_occ>>

\* the candidate loop is exhausted: return False
LoopExhausted ==
    /\ pc = "loop"
    /\ Top.i > Len(Top.cands)
    /\ ret_occ' = Top.entry_occ
    /\ stack' = SubSeq(stack, 1, Len(stack) - 1)
    /\ pc' = "retF"
    /\ UNCHANGED <<io_vars, problem, wire_lengths, run, first, occ, uf, comps, nets, net_order, pin_of_comp,
                   seg_id_ctr, ordered_comps, net_idx, result>>

\* variant: after the undo the same candidate is tried again
Backtrack_retry ==
    /\ pc = "retF"
    /\ stack # <<>>
    /\ LET c == comps[CurIdx]
           pins == pin_of_comp[c.name]
       IN  /\ nets' = unbind_pins(nets, c, pins)
           /\ occ' = IF c.body # <<>> THEN release_component(occ, c.body, c.pins) ELSE occ
           /\ comps' = [comps EXCEPT ![CurIdx] = Unplaced(c)]
           /\ pin_of_comp' = [n \in DOMAIN pin_of_comp \ {c.name} |-> pin_of_comp[n]]
    /\ pc' = "loop"
    /\ UNCHANGED <<io_vars, problem, wire_lengths, run, first, uf, net_order, seg_id_ctr, ordered_comps,
                   stack, net_idx, result, ret_occ>>

\* the caller's loop tail after the recursive call returned False
Backtrack ==
    /\ pc = "retF"
    /\ stack # <<>>
    /\ LET c == comps[CurIdx]
           pins == pin_of_comp[c.name]
       IN  /\ nets' = unbind_pins(nets, c, pins)
           /\ occ' = IF c.body # <<>> THEN release_component(occ, c.body, c.pins) ELSE occ
           /\ comps' = [comps EXCEPT ![CurIdx] = Unplaced(c)]
           /\ pin_of_comp' = [n \in DOMAIN pin_of_comp \ {c.name} |-> pin_of_comp[n]]
    /\ stack' = NextCand
    /\ pc' = "loop"
    /\ UNCHANGED <<io_vars, problem, wire_lengths, run, first, uf, net_order, seg_id_ctr, ordered_comps,
                   net_idx, result, ret_occ>>

\* _place_rec(0) returned False: place_and_route returns False
ReturnFalse ==
    /\ pc = "retF"
    /\ stack = <<>>
    /\ result' = "False"
    /\ pc' = "done"
    /\ UNCHANGED <<io_vars, problem, wire_lengths, run, first, occ, uf, comps, nets, net_order, pin_of_comp,
                   seg_id_ctr, ordered_comps, stack, net_idx, ret_occ>>

RECURSIVE release_all(_, _)
release_all(r, order) ==
    IF order = <<>> THEN r ELSE release_all(release_net_wires(r, Head(order)), Tail(order))

SearchRec == [ok |-> TRUE, occ |-> occ, nets |-> nets, uf |-> uf, seg_id_ctr |-> seg_id_ctr]

\* _place_rec(len(ordered_comps)): release every net's wires, rebuild the UF
LeafBegin ==
    /\ pc = "enter"
    /\ Len(stack) = Len(ordered_comps)
    /\ LET r == release_all(SearchRec, net_order)
       IN  /\ occ' = r.occ
           /\ nets' = r.nets
           /\ uf' = rebuild_union_find(r.nets, net_order)
    /\ stack' = Append(stack, [cands |-> <<>>, i |-> 0, entry_occ |-> occ])
    /\ net_idx' = 1
    /\ pc' = "route"
    /\ UNCHANGED <<io_vars, problem, wire_lengths, run, first, comps, net_order, pin_of_comp, seg_id_ctr,
                   ordered_comps, result, ret_occ>>

\* route_net succeeds for the next net of the map
RouteNetOk ==
    /\ pc = "route"
    /\ net_idx <= Len(net_order)
    /\ \E r \in {route_net(SearchRec, wire_lengths, net_order, net_order[net_idx])} :
           /\ r.ok
           /\ occ' = r.occ
           /\ nets' = r.nets
           /\ uf' = r.uf
           /\ seg_id_ctr' = r.seg_id_ctr
    /\ net_idx' = net_idx + 1
    /\ UNCHANGED <<io_vars, problem, wire_lengths, run, first, comps, net_order, pin_of_comp, ordered_comps,
                   stack, pc, result, ret_occ>>

\* route_net fails: the leaf call returns False at once
RouteNetFails ==
    /\ pc = "route"
    /\ net_idx <= Len(net_order)
    /\ \E r \in {route_net(SearchRec, wire_lengths, net_order, net_order[net_idx])} :
           /\ ~r.ok
           /\ occ' = r.occ
           /\ nets' = r.nets
           /\ uf' = r.uf
           /\ seg_id_ctr' = r.seg_id_ctr
    /\ ret_occ' = Top.entry_occ
    /\ stack' = SubSeq(stack, 1, Len(stack) - 1)
    /\ pc' = "retF"
    /\ UNCHANGED <<io_vars, problem, wire_lengths, run, first, comps, net_order, pin_of_comp, ordered_comps,
                   net_idx, result>>

\* every net is routed but shorts_exist holds: the leaf call returns False
ShortsFound ==
    /\ pc = "route"
    /\ net_idx > Len(net_order)
    /\ shorts_exist(uf, nets, net_order)
    /\ ret_occ' = Top.entry_occ
    /\ stack' = SubSeq(stack, 1, Len(stack) - 1)
    /\ pc' = "retF"
    /\ UNCHANGED <<io_vars, problem, wire_lengths, run, first, occ, uf, comps, nets, net_order, pin_of_comp,
                   seg_id_ctr, ordered_comps, net_idx, result>>

\* no short: True is returned through every level of the recursion
ReturnTrue ==
    /\ pc = "route"
    /\ net_idx > Len(net_order)
    /\ ~shorts_exist(uf, nets, net_order)
    /\ stack' = <<>>
    /\ result' = "True"
    /\ pc' = "done"
    /\ UNCHANGED <<io_vars, problem, wire_lengths, run, first, occ, uf, comps, nets, net_order, pin_of_comp,
                   seg_id_ctr, ordered_comps, net_idx, ret_occ>>

Next ==
    \/ PlaceAndRoute
    \/ EnterRec
    \/ ClaimFails
    \/ ForwardCheckFails
    \/ Descend
    \/ LoopExhausted
    \/ Backtrack
    \/ ReturnFalse
    \/ LeafBegin
    \/ RouteNetOk
    \/ RouteNetFails
    \/ ShortsFound
    \/ ReturnTrue

Spec == Init /\ [][Next]_vars

\* The search is one sequential computation: it takes its next step whenever
\* it has one.  This is weak fairness of Next, WF_vars(Next), written out with
\* the enabling condition of <<Next>>_vars, which is pc # "done": at every other
\* control position one of the actions is enabled, and each of them changes
\* pc, the stack or net_idx.
FairSpec == Spec /\ ([]<>(pc = "done") \/ []<><<Next>>_vars)

\* a second process run on the same netlist and configuration: everything is
\* constructed afresh, only the record of the first run is kept
Rerun ==
    /\ pc = "done"
    /\ run = 1
    /\ run' = 2
    /\ first' = [net_order |-> net_order, result |-> result, comps |-> comps,
                 seg_paths |-> [n \in DOMAIN nets |-> nets[n].seg_paths]]
    /\ occ' = EmptyBoard
    /\ uf' = init_uf
    /\ comps' = [i \in DOMAIN comps |->
                    [Unplaced(comps[i]) EXCEPT !.net_a = None, !.net_b = None]]
    /\ nets' = [n \in Range(Problems[problem].nets) |-> NewNet(n, <<>>)]
    /\ net_order' = Problems[problem].nets
    /\ pin_of_comp' = [n \in {} |-> <<>>]
    /\ seg_id_ctr' = 1
    /\ ordered_comps' = <<>>
    /\ stack' = <<>>
    /\ net_idx' = 0
    /\ pc' = "start"
    /\ result' = None
    /\ ret_occ' = EmptyBoard
    /\ UNCHANGED <<io_vars, problem, wire_lengths>>

NextRuns == Next \/ Rerun

SpecRuns == Init /\ [][NextRuns]_vars

\* ------------------------------------------------------------------------
\* PnR.solution and the calls of the G-code generator
\* ------------------------------------------------------------------------
\* the characters of the component names of the problems
NameChars == [R1 |-> <<"R", "1">>, R2 |-> <<"R", "2">>]

RECURSIVE wires_of(_, _)
wires_of(ns, order) ==
    IF order = <<>> THEN <<>>
    ELSE ns[Head(order)].seg_paths \o wires_of(ns, Tail(order))

\* PnR.solution: the pins of every component by name, and the segments of the
\* nets in the order of the nets
solution(cs, ns, order) ==
    [components |-> [k \in {NameChars[cs[i].name] : i \in DOMAIN cs} |->
                        LET i == CHOOSE j \in DOMAIN cs : NameChars[cs[j].name] = k
                        IN  cs[i].pins],
     wires |-> wires_of(ns, order)]

MaxCalls == 3

\* solutions handed to the generator: a resistor and a diode (a type without
\* a tray entry), each present or not, next to an LED and a component that
\* was never placed; no wire, or two 6-hole jumpers around a 2-hole one
Solutions ==
    LET always == (<<"L", "E", "D">> :> << <<1, 8>>, <<3, 8>> >>) @@
                  (<<"C", "3">> :> <<>>)
        r1 == (<<"R", "1">> :> << <<0, 0>>, <<2, 0>> >>)
        d1 == (<<"D", "1">> :> << <<0, 9>>, <<2, 9>> >>)
        w6 == << <<1, 9>>, <<1, 10>>, <<1, 11>>, <<1, 14>> >>
        w2 == << <<1, 7>>, <<2, 7>> >>
        v6 == << <<0, 4>>, <<0, 7>>, <<0, 8>>, <<0, 9>> >>
    IN  {[components |-> c, wires |-> w] :
            c \in {always, always @@ r1, always @@ d1, always @@ r1 @@ d1},
            w \in {<<>>, <<w6, w2, v6>>}}

\* one call of generate_gcode_from_solution on any of the solutions
GenerateGcode ==
    /\ Len(gcalls) < MaxCalls
    /\ \E sol \in Solutions :
          \E g \in {generate_gcode_from_solution(sol, col_dict, len_dict, wires_used)} :
             /\ gcalls' = Append(gcalls, [solution |-> sol, text |-> g.text])
             /\ wires_used' = g.wires_used
    /\ UNCHANGED <<pnr_vars, col_dict, len_dict, netlist, pnr_inputs, orch_vars>>

InitGcode == Init /\ problem = 1 /\ wire_lengths = <<1, 2, 3>>

SpecGcode == InitGcode /\ [][GenerateGcode]_vars

\* ------------------------------------------------------------------------
\* Netlist translation (CircuitToPrinterWorkflow.netlist_to_pnr_inputs)
\*
\* A component line of the netlist is the record of its reference, its
\* nodes and the model name that follows the nodes (<<>> when there is
\* none), in the order of editor.get_components().  References, nodes and
\* model names are sequences of characters.
\* ------------------------------------------------------------------------
Lowers == <<"a", "b", "c", "d", "e", "f", "g", "h", "i", "j", "k", "l", "m",
            "n", "o", "p", "q", "r", "s", "t", "u", "v", "w", "x", "y", "z">>

\* str.upper()
upper(cs) ==
    [i \in DOMAIN cs |->
        IF cs[i] \in Range(Lowers)
        THEN Uppers[CHOOSE k \in DOMAIN Lowers : Lowers[k] = cs[i]]
        ELSE cs[i]]

\* str.startswith(p)
startswith(cs, p) == Len(cs) >= Len(p) /\ SubSeq(cs, 1, Len(p)) = p

\* p in cs, for str
contains(cs, p) ==
    \E i \in 1..(Len(cs) - Len(p) + 1) : SubSeq(cs, i, i + Len(p) - 1) = p

\* a list built element by element: the value of every element is computed
\* once, when the list is built
AsList(s) == SubSeq(s, 1, Len(s))

GND == <<"G", "N", "D">>

VPLUS == <<"V", "+">>

LED == <<"L", "E", "D">>

COMPONENT_DEFAULTS ==
    (<<"R">> :> [length |-> 3, orientation |-> "v"]) @@
    (<<"C">> :> [length |-> 3, orientation |-> "v"]) @@
    (<<"L">> :> [length |-> 3, orientation |-> "v"]) @@
    (<<"D">> :> [length |-> 3, orientation |-> "v"]) @@
    (LED :> [length |-> 3, orientation |-> "v"])

\* the .model lines of the netlist: name and kind
ModelLines ==
    { [name |-> <<"D", "L", "E", "D">>, kind |-> <<"D">>],
      [name |-> <<"D", "1", "N">>, kind |-> <<"D">>] }

\* _parse_models_and_instances: the diode models that look like LEDs, and
\* the model of each diode line
led_models ==
    {m.name : m \in {k \in ModelLines :
                        startswith(upper(k.kind), <<"D">>) /\ contains(upper(k.name), LED)}}

diode_inst_to_model(nl, ref) ==
    LET ds == {i \in DOMAIN nl :
                  /\ upper(<<nl[i].ref[1]>>) = <<"D">>
                  /\ nl[i].model # <<>>
                  /\ nl[i].ref = ref}
    IN  IF ds = {} THEN <<>>
        ELSE nl[CHOOSE i \in ds : \A j \in ds : j <= i].model

\* the first voltage source whose negative node is "0" gives the V+ net
_detect_single_supply(nl) ==
    LET vs == {i \in DOMAIN nl :
                  /\ startswith(upper(nl[i].ref), <<"V">>)
                  /\ Len(nl[i].nodes) >= 2
                  /\ nl[i].nodes[2] = <<"0">>}
    IN  IF vs = {} THEN None
        ELSE nl[CHOOSE i \in vs : \A j \in vs : i <= j].nodes[1]

\* the function returned by _node_alias_fn(vplus_net)
alias(vplus_net, n) ==
    IF n = <<"0">> \/ upper(n) = GND THEN GND
    ELSE IF vplus_net # None /\ vplus_net # <<>> /\ n = vplus_net THEN VPLUS
    ELSE n

\* the loop that builds entries: sources are skipped, a diode with an LED
\* model gets the base "LED"
is_entry(l) ==
    /\ ~ startswith(upper(l.ref), <<"V">>)
    /\ ~ startswith(upper(l.ref), <<"I">>)
    /\ Len(l.nodes) >= 2

base_of(nl, l) ==
    LET model == diode_inst_to_model(nl, l.ref)
    IN  IF /\ startswith(upper(l.ref), <<"D">>)
           /\ model # <<>>
           /\ (model \in led_models \/ contains(upper(model), LED))
        THEN LED
        ELSE l.ref

entries(nl) ==
    LET vplus_net == _detect_single_supply(nl)
        kept == SelectSeq(nl, is_entry)
    IN  AsList([i \in DOMAIN kept |->
                   [base |-> base_of(nl, kept[i]),
                    a |-> alias(vplus_net, kept[i].nodes[1]),
                    b |-> alias(vplus_net, kept[i].nodes[2])]])

\* the keys of mapping in insertion order after the nodes ns went through
\* _compact one by one
RECURSIVE mapping_keys(_)
mapping_keys(ns) ==
    IF ns = <<>> THEN <<>>
    ELSE LET before == mapping_keys(SubSeq(ns, 1, Len(ns) - 1))
             n == ns[Len(ns)]
         IN  IF n \in {VPLUS, GND} \/ n \in Range(before) THEN before
             ELSE Append(before, n)

\* variant: _compact numbers a node by the position of its first use instead of
\* by len(mapping) + 1
_compact_by_position(ns, n) ==
    IF n \in {VPLUS, GND} THEN n
    ELSE <<"N">> \o StrOf(CHOOSE i \in DOMAIN ns :
                             ns[i] = n /\ \A j \in 1..(i - 1) : ns[j] # n)

\* _compact(n) once all the nodes ns were seen: mapping[n] = f"N{len(mapping) + 1}"
\* was assigned when n was first seen
_compact(ns, n) ==
    IF n \in {VPLUS, GND} THEN n
    ELSE LET mapping == mapping_keys(ns)
         IN  <<"N">> \o StrOf(CHOOSE i \in DOMAIN mapping : mapping[i] = n)

\* the nodes of the entries in the order _compact meets them
entry_nodes(es) ==
    AsList([k \in 1..(2 * Len(es)) |->
               IF k % 2 = 1 THEN es[(k + 1) \div 2].a ELSE es[k \div 2].b])

compacted_entries(es) ==
    LET ns == entry_nodes(es)
    IN  AsList([i \in DOMAIN es |->
                   [base |-> es[i].base,
                    a |-> _compact(ns, es[i].a),
                    b |-> _compact(ns, es[i].b)]])

\* name = base if idx == 0 else f"{base}{idx}", idx the number of earlier
\* entries with the same base
final_names(es) ==
    AsList([i \in DOMAIN es |->
               LET idx == Cardinality({j \in 1..(i - 1) : es[j].base = es[i].base})
               IN  IF idx = 0 THEN es[i].base ELSE es[i].base \o StrOf(idx)])

\* final_bindings[name] = (a, b): a later entry of the same name overwrites
final_bindings(es) ==
    LET names == final_names(es)
    IN  [n \in Range(names) |->
            LET i == CHOOSE i \in DOMAIN es :
                        names[i] = n /\ \A j \in DOMAIN es : names[j] = n => j <= i
            IN  <<es[i].a, es[i].b>>]

\* the key of COMPONENT_DEFAULTS chosen for a name
defaults_key(name) ==
    LET key == upper(SelectSeq(name, LAMBDA c : ~ IsDigit(c)))
    IN  IF startswith(key, LED) THEN LED
        ELSE IF key # <<>> THEN <<key[1]>>
        ELSE <<"R">>

_make_passives_from_names(part_names) ==
    AsList([i \in DOMAIN part_names |->
               LET key == defaults_key(part_names[i])
                   meta == IF key \in DOMAIN COMPONENT_DEFAULTS THEN COMPONENT_DEFAULTS[key]
                           ELSE [length |-> 3, orientation |-> "v"]
               IN  [name |-> part_names[i], length |-> meta.length,
                    orientation |-> meta.orientation]])

netlist_to_pnr_inputs(nl) ==
    LET es == compacted_entries(entries(nl))
        bindings == final_bindings(es)
        internal == UNION {{bindings[n][1], bindings[n][2]} : n \in DOMAIN bindings}
                        \ {VPLUS, GND}
    IN  [nets |-> sorted(internal),
         comps |-> _make_passives_from_names(final_names(es)),
         bindings |-> bindings]

MaxLines == 3

\* component lines: two voltage sources, a current source, resistors, two
\* diodes with an LED or a plain model, an inductor called LED1, and a
\* capacitor line with a single node
Lines ==
    LET line(r, a, b, m) == [ref |-> r, nodes |-> <<a, b>>, model |-> m]
        VCC == <<"V", "C", "C">>
    IN  {line(<<"V", "1">>, p[1], p[2], <<>>) :
            p \in {<<VCC, <<"0">>>>, <<<<"g", "n", "d">>, <<"0">>>>, <<VCC, <<"a">>>>}}
        \cup {line(<<"v", "2">>, <<"b">>, <<"0">>, <<>>),
              line(<<"I", "1">>, <<"a">>, <<"0">>, <<>>)}
        \cup {line(<<"R", "1">>, a, b, <<>>) :
                a \in {VPLUS, <<"a">>}, b \in {<<"b">>, <<"G", "n", "d">>}}
        \cup {line(<<"R", "2">>, a, <<"a">>, <<>>) : a \in {<<"b">>, <<"N", "1">>}}
        \cup {line(<<"D", "1">>, a, <<"b">>, <<"D", "L", "E", "D">>) : a \in {VCC, <<"a">>}}
        \cup {line(<<"D", "2">>, <<"b">>, <<"0">>, m) :
                m \in {<<"D", "L", "E", "D">>, <<"D", "1", "N">>}}
        \cup {line(<<"L", "E", "D", "1">>, <<"a">>, GND, <<>>)}
        \cup {[ref |-> <<"C", "1">>, nodes |-> << <<"a">> >>, model |-> <<>>]}

\* netlists of up to MaxLines component lines with distinct references
Netlists ==
    UNION {{nl \in [1..n -> Lines] :
               \A i, j \in 1..n : nl[i].ref = nl[j].ref => i = j} : n \in 0..MaxLines}

\* one call of netlist_to_pnr_inputs on any of the netlists
NetlistToPnrInputs ==
    /\ pnr_inputs = <<>>
    /\ \E nl \in Netlists :
          /\ netlist' = nl
          /\ pnr_inputs' = <<netlist_to_pnr_inputs(nl)>>
    /\ UNCHANGED <<pnr_vars, col_dict, len_dict, wires_used, gcalls, orch_vars>>

InitNetlist == Init /\ problem = 1 /\ wire_lengths = <<1, 2, 3>>

SpecNetlist == InitNetlist /\ [][NetlistToPnrInputs]_vars

\* ------------------------------------------------------------------------
\* Workflow orchestration (WorkflowOrchestrator.runWorkflows)
\*
\* Money is counted in units of 0.001 USD. The amounts are whole units, on
\* which the rounding of _calculateTotalSpend to six digits changes nothing.
\* ------------------------------------------------------------------------
MAX_RUN_COST == 1

MaxRetries == 2

\* the most one call of a workflow's run can add to the cost of its workflow
MaxCost == 2

WorkflowNames == <<"spec_generation", "netlist_generation", "circuit_to_printer">>

\* the maps the orchestrator is built with, as their keys in insertion order
WorkflowMaps ==
    {SubSeq(WorkflowNames, a, b) : a \in 1..2, b \in 0..Len(WorkflowNames)}

Event(type, workflow) == [type |-> type, workflow |-> workflow]

\* _calculateTotalSpend: the sum of the costs of all workflow contexts
RECURSIVE calculateTotalSpend(_)
calculateTotalSpend(ctx) ==
    IF DOMAIN ctx = {} THEN 0
    ELSE LET k == CHOOSE n \in DOMAIN ctx : TRUE
         IN  ctx[k].cost + calculateTotalSpend([n \in DOMAIN ctx \ {k} |-> ctx[n]])

\* what one call of a workflow's run does to the state it is given: it
\* returns with SUCCESS after a started and a completed substage, returns
\* with ERROR and its own message after a started substage, or raises after
\* it has set RUNNING and started a substage
RunKinds == {"success", "error", "raise"}

run_workflow(kind, name, msg) ==
    IF kind = "success"
    THEN [status |-> "success", err_message |-> msg,
          events |-> <<Event("substage_started", name), Event("substage_completed", name)>>]
    ELSE IF kind = "error"
    THEN [status |-> "error", err_message |-> "Error during workflow",
          events |-> <<Event("substage_started", name)>>]
    ELSE [status |-> "running", err_message |-> msg,
          events |-> <<Event("substage_started", name)>>]

\* the call: run_started is emitted and the for loop is entered
RunStarted ==
    /\ o_pc = "idle"
    /\ \E ws \in WorkflowMaps, r \in 0..MaxRetries :
          /\ workflows' = ws
          /\ max_retries' = r
    /\ events' = Append(events, Event("run_started", ""))
    /\ wf_i' = 1
    /\ o_pc' = "for"
    /\ UNCHANGED <<pnr_vars, col_dict, len_dict, wires_used, gcalls, netlist, pnr_inputs,
                   attempt, status, err_message, last_error_message, workflows_context,
                   invocations, ended>>

\* the head of the for loop up to the while loop; after the last workflow
\* the tail of runWorkflows
NextWorkflow ==
    /\ o_pc = "for"
    /\ IF wf_i > Len(workflows)
       THEN /\ status' = "success"
            /\ err_message' = ""
            /\ events' = Append(events, Event("run_succeeded", ""))
            /\ o_pc' = "returned"
            /\ UNCHANGED <<workflows_context, last_error_message, attempt>>
       ELSE IF calculateTotalSpend(workflows_context) >= MAX_RUN_COST
       THEN /\ status' = "error"
            /\ err_message' = "Cost limit reached"
            /\ o_pc' = "returned"
            /\ UNCHANGED <<events, workflows_context, last_error_message, attempt>>
       ELSE /\ status' = "pending"
            /\ workflows_context' =
                  [n \in DOMAIN workflows_context \cup {workflows[wf_i]} |->
                      IF n = workflows[wf_i] THEN [cost |-> 0] ELSE workflows_context[n]]
            /\ events' = Append(events, Event("workflow_started", workflows[wf_i]))
            /\ last_error_message' = ""
            /\ attempt' = 0
            /\ o_pc' = "while"
            /\ UNCHANGED err_message
    /\ UNCHANGED <<pnr_vars, col_dict, len_dict, wires_used, gcalls, netlist, pnr_inputs,
                   workflows, max_retries, wf_i, invocations, ended>>

\* one pass of the while loop: the workflow is run, its cost is added, and
\* the loop is left on a broken budget or on success
Attempt ==
    /\ o_pc = "while"
    /\ attempt < max_retries
    /\ \E kind \in RunKinds, c \in 0..MaxCost :
          LET name == workflows[wf_i]
              ran == run_workflow(kind, name, err_message)
              raised == kind = "raise"
              st == IF raised THEN "error" ELSE ran.status
              last == IF raised THEN "Unhandled exception" ELSE last_error_message
              ctx == [workflows_context EXCEPT ![name].cost = @ + c]
          IN  /\ attempt' = attempt + 1
              /\ invocations' = Append(invocations, name)
              /\ workflows_context' = ctx
              /\ last_error_message' = last
              /\ IF calculateTotalSpend(ctx) > MAX_RUN_COST
                 THEN /\ status' = "error"
                      /\ err_message' = "Cost limit exceeded"
                      /\ events' = events \o ran.events
                      /\ o_pc' = "after"
                 ELSE IF st = "success"
                 THEN /\ status' = st
                      /\ err_message' = ran.err_message
                      /\ events' = events \o ran.events
                                      \o <<Event("workflow_succeeded", name)>>
                      /\ o_pc' = "after"
                 ELSE /\ status' = st
                      /\ err_message' =
                            IF ran.err_message # "" THEN ran.err_message
                            ELSE IF last # "" THEN last
                            ELSE "failed after attempts"
                      /\ events' = events \o ran.events
                      /\ o_pc' = "while"
    /\ UNCHANGED <<pnr_vars, col_dict, len_dict, wires_used, gcalls, netlist, pnr_inputs,
                   workflows, max_retries, wf_i, ended>>

EndWorkflow_continue ==
    /\ o_pc = "after" \/ (o_pc = "while" /\ attempt >= max_retries)
    /\ ended' = Append(ended, [workflow |-> workflows[wf_i], status |-> status])
    /\ events' = IF status # "success"
                 THEN Append(events, Event("workflow_failed", workflows[wf_i]))
                 ELSE events
    /\ o_pc' = "for"
    /\ wf_i' = wf_i + 1
    /\ UNCHANGED <<pnr_vars, col_dict, len_dict, wires_used, gcalls, netlist, pnr_inputs,
                   workflows, max_retries, attempt, status, err_message,
                   last_error_message, workflows_context, invocations>>

\* after the while loop: a workflow that did not succeed stops the run
EndWorkflow ==
    /\ o_pc = "after" \/ (o_pc = "while" /\ attempt >= max_retries)
    /\ ended' = Append(ended, [workflow |-> workflows[wf_i], status |-> status])
    /\ IF status # "success"
       THEN /\ events' = Append(events, Event("workflow_failed", workflows[wf_i]))
            /\ o_pc' = "returned"
            /\ wf_i' = wf_i
       ELSE /\ events' = events
            /\ o_pc' = "for"
            /\ wf_i' = wf_i + 1
    /\ UNCHANGED <<pnr_vars, col_dict, len_dict, wires_used, gcalls, netlist, pnr_inputs,
                   workflows, max_retries, attempt, status, err_message,
                   last_error_message, workflows_context, invocations>>

NextOrch == RunStarted \/ NextWorkflow \/ Attempt \/ EndWorkflow

InitOrch == Init /\ problem = 1 /\ wire_lengths = <<1, 2, 3>>

SpecOrch == InitOrch /\ [][NextOrch]_vars

\* ------------------------------------------------------------------------
\* Properties
\* ------------------------------------------------------------------------
Returned(v) == pc = "done" /\ result = v

SegsOf(n) == {nets[n].seg_paths[k] : k \in DOMAIN nets[n].seg_paths}

AllSegs == UNION {SegsOf(n) : n \in DOMAIN nets}

RailHolesOf(a) == IF a = "V+" THEN rails_v ELSE IF a = "GND" THEN rails_g ELSE {}

\* C1: when place_and_route returns True, all terminals of every net and the
\* holes of each of its fixed-anchor rails share one union-find representative
C1_NetsConnected ==
    Returned("True") =>
        \A n \in DOMAIN nets :
            LET items == Range(nets[n].terms) \cup
                         UNION {RailHolesOf(a) : a \in Range(nets[n].fixed_anchors)}
            IN  \A x \in items : \A y \in items : find(uf, x) = find(uf, y)

C1_Witness ==
    /\ Returned("True")
    /\ \E n \in DOMAIN nets : /\ Len(nets[n].terms) >= 2
                              /\ nets[n].fixed_anchors # <<>>
                              /\ Len(nets[n].seg_paths) >= 2

\* C2: when place_and_route returns True, no two distinct nets that have
\* terminals share a union-find representative
C2_NoShorts ==
    Returned("True") =>
        \A n \in DOMAIN nets : \A m \in DOMAIN nets :
            n # m =>
                \A a \in Range(nets[n].terms) : \A b \in Range(nets[m].terms) :
                    find(uf, a) # find(uf, b)

C2_Witness ==
    /\ Returned("True")
    /\ Cardinality({n \in DOMAIN nets : nets[n].terms # <<>>}) >= 3
    /\ AllSegs # {}

\* C3: a single vertical two-pin component of length 3 bound to (V+, GND)
\* is solved: True is returned, with exactly one jumper from pin A's strip to
\* a V+ rail hole and one jumper from pin B's strip to a GND rail hole
C3_SingleComponentSolved ==
    (problem = 1 /\ pc = "done") =>
        /\ result = "True"
        /\ \E sv \in SegsOf("V+") : \E sg \in SegsOf("GND") :
              /\ SegsOf("V+") = {sv}
              /\ SegsOf("GND") = {sg}
              /\ \E x \in Range(sv) : strip_of_hole(x) = strip_of_hole(comps[1].pins[1])
              /\ \E x \in Range(sv) : x \in rails_v
              /\ \E x \in Range(sg) : strip_of_hole(x) = strip_of_hole(comps[1].pins[2])
              /\ \E x \in Range(sg) : x \in rails_g

\* C4: place_and_route terminates, returning True or False
C4_Terminates == <>(pc = "done" /\ result \in {"True", "False"})

C4_Witness == Returned("False") /\ seg_id_ctr > 1 /\ Len(ordered_comps) = 2

\* C5: every failing exit of _place_rec leaves the occupancy as it was at
\* the entry of that call, and hence a False place_and_route leaves the
\* board as it found it
C5_FailureRestoresOccupancy ==
    /\ pc = "retF" => occ = ret_occ
    /\ Returned("False") => occ = EmptyBoard

\* C6: a second run on the same input has the same key order of the nets
\* (V+ and GND included), the same result and the same layout as the first
C6_RunsAgree ==
    (run = 2 /\ pc = "done") =>
        /\ net_order = first.net_order
        /\ result = first.result
        /\ comps = first.comps
        /\ [n \in DOMAIN nets |-> nets[n].seg_paths] = first.seg_paths

\* C7: the two endpoints of every segment of every net lie on one row or one
\* column, at a Manhattan distance that is one of the wire lengths
C7_SegmentLengths ==
    \A s \in AllSegs :
        LET a == s[1]
            b == s[Len(s)]
        IN  /\ a[1] = b[1] \/ a[2] = b[2]
            /\ \E i \in DOMAIN wire_lengths :
                   wire_lengths[i] = Abs(a[1] - b[1]) + Abs(a[2] - b[2])

C7_Witness ==
    \E s \in AllSegs : Abs(s[1][1] - s[Len(s)][1]) + Abs(s[1][2] - s[Len(s)][2]) >= 3

\* C8: a segment of a signal net holds no rail hole; a segment of a rail net
\* holds no rail hole strictly inside, and its rail endpoints are of the
\* net's own polarity
C8_RailRules ==
    \A n \in DOMAIN nets : \A s \in SegsOf(n) : \A k \in DOMAIN s :
        s[k] \in rails_v \cup rails_g =>
            /\ n \in {"V+", "GND"}
            /\ k \in {1, Len(s)}
            /\ s[k] \in RailHolesOf(n)

C8_Witness ==
    \E n \in {"V+", "GND"} \cap DOMAIN nets : \E s \in SegsOf(n) :
        s[Len(s)] \in RailHolesOf(n) \/ s[1] \in RailHolesOf(n)

BodyOnOneHalf(body) ==
    LET cs == {body[i][2] : i \in DOMAIN body}
    IN  (\A c \in cs : c < 5) \/ (\A c \in cs : c > 6)

\* C9: every placement that legal_placements returns, and every placed
\* component, has all body columns below the lower trough column or all above
\* the upper one
C9_NoStraddle ==
    /\ \A length \in 2..MaxLen : \A o \in {"h", "v"} :
          LET ps == legal_placements(occ, length, o)
          IN  \A k \in DOMAIN ps : BodyOnOneHalf(ps[k].body)
    /\ \A i \in DOMAIN comps : BodyOnOneHalf(comps[i].body)

C9_Witness ==
    /\ \E i \in DOMAIN comps : comps[i].body # <<>>
    /\ \E i \in DOMAIN comps : comps[i].body = <<>>
    /\ legal_placements(occ, MaxLen - 1, "h") # <<>>

\* C10: the five holes of every strip share one representative, all V+ rail
\* holes share one, and all GND rail holes share one, after construction and
\* after every rebuild_union_find and commit_path
C10_BareConnectivity ==
    /\ \A r \in 0..(Rows - 1) : \A base \in {0, 7} :
          \A c \in base..(base + 4) : find(uf, <<r, c>>) = find(uf, <<r, base>>)
    /\ \A x \in rails_v : \A y \in rails_v : find(uf, x) = find(uf, y)
    /\ \A x \in rails_g : \A y \in rails_g : find(uf, x) = find(uf, y)

C10_Witness == uf # init_uf /\ AllSegs # {} /\ pc = "route"

\* the holes directly related to a: its strip, its rail, and its neighbours
\* in the segments of the nets
Linked(a) ==
    Range(strip_of_hole(a))
    \cup (IF rail_of_hole(a) = None THEN {} ELSE RailHolesOf(rail_of_hole(a)))
    \cup {b \in RealHoles : \E s \in AllSegs : \E k \in 1..(Len(s) - 1) :
                                {s[k], s[k + 1]} = {a, b}}

RECURSIVE Reach(_)
Reach(S) ==
    LET T == S \cup UNION {Linked(a) : a \in S}
    IN  IF T = S THEN S ELSE Reach(T)

\* C11: after rebuild_union_find, two real holes have the same representative
\* exactly when they are related by the closure of same strip, same rail and
\* consecutive in a segment of the nets; with no segment there is one class
\* per strip, one for V+ and one for GND
C11_RebuildIsClosure ==
    pc = "route" =>
        /\ \A a \in RealHoles :
              {b \in RealHoles : find(uf, b) = find(uf, a)} = Reach({a})
        /\ AllSegs = {} =>
              Cardinality({find(uf, a) : a \in RealHoles}) = 2 * Rows + 2

C11_Witness ==
    /\ pc = "route"
    /\ seg_id_ctr > Cardinality(AllSegs) + 2
    /\ \E s \in AllSegs : Len(s) >= 3 /\ s[1][2] = s[3][2]
    /\ Cardinality({find(uf, a) : a \in RealHoles}) < 2 * Rows

\* the placements of length 2 and 3 whose holes are all real holes
RealPlacements ==
    {p \in {placement_at(h, length, o) : h \in holes, length \in 2..3, o \in {"h", "v"}} :
        Range(p.body) \subseteq RealHoles}

\* C12: on real holes claim_component returns False and changes no hole if a
\* hole of body or pins is not empty; otherwise it returns True, every pin
\* hole is comp_pin(id), every other body hole is comp_body(id), and every
\* other hole is unchanged
C12_ClaimComponent ==
    \A p \in RealPlacements :
        LET r == claim_component(occ, "X1", p.body, p.pins)
            used == Range(p.body) \cup Range(p.pins)
        IN  IF \E h \in used : occ[h].typ # "empty"
            THEN ~r.ok /\ r.occ = occ
            ELSE /\ r.ok
                 /\ \A h \in Range(p.pins) : r.occ[h] = [typ |-> "comp_pin", id |-> "X1"]
                 /\ \A h \in Range(p.body) \ Range(p.pins) :
                        r.occ[h] = [typ |-> "comp_body", id |-> "X1"]
                 /\ \A h \in RealHoles \ used : r.occ[h] = occ[h]

C12_Witness ==
    /\ \E i \in DOMAIN comps :
          /\ Len(comps[i].body) >= 3
          /\ \A k \in DOMAIN comps[i].pins :
                 occ[comps[i].pins[k]] = [typ |-> "comp_pin", id |-> comps[i].name]
          /\ occ[comps[i].body[2]] = [typ |-> "comp_body", id |-> comps[i].name]
    /\ \E h \in RealHoles : occ[h].typ = "wire_end"
    /\ \E p \in RealPlacements : claim_component(occ, "X1", p.body, p.pins).ok
    /\ \E p \in RealPlacements : ~claim_component(occ, "X1", p.body, p.pins).ok

\* C13: two calls of generate_gcode_from_solution on the same solution return
\* the same text, whatever calls were made in between, and no call changes
\* col_dict, len_dict or wires_used
C13_GcodeDeterministic ==
    /\ \A i \in DOMAIN gcalls : \A j \in DOMAIN gcalls :
          gcalls[i].solution = gcalls[j].solution => gcalls[i].text = gcalls[j].text
    /\ col_dict = col_dict_0
    /\ len_dict = len_dict_0
    /\ wires_used = wires_used_0

C13_Witness ==
    /\ Len(gcalls) = 3
    /\ gcalls[1].solution = gcalls[3].solution
    /\ gcalls[2].solution # gcalls[1].solution
    /\ gcalls[1].solution.wires # <<>>
    /\ gcalls[2].solution.wires # <<>>
    /\ Len(gcalls[1].text) > 30

IsMove(line) == Len(line) = 3 /\ line[1] = "G0 F6000 X Y"

\* the vacuum commands of a text, in order
VacuumLines(text) == SelectSeq(text, LAMBDA l : l \in {<<"VACUUM_ON">>, <<"VACUUM_OFF">>})

\* C14: the program is the prologue G0 Z<PassiveZ> followed by cycles of
\* exactly G90, XY move, Z25, Z PickupZ, VACUUM_ON, Z PassiveZ, G90, XY move,
\* Z25, Z PlaceZ, VACUUM_OFF, Z PassiveZ; VACUUM_ON and VACUUM_OFF alternate
\* starting with VACUUM_ON and the program ends with the vacuum off
C14_CycleSequence ==
    \A c \in DOMAIN gcalls :
        LET text == gcalls[c].text
            vac == VacuumLines(text)
        IN  /\ text[1] = <<"G0 Z", 45>>
            /\ (Len(text) - 1) % 12 = 0
            /\ \A g \in 0..(((Len(text) - 1) \div 12) - 1) :
                  LET l(k) == text[1 + 12 * g + k]
                  IN  /\ l(1) = <<"G90">>
                      /\ IsMove(l(2))
                      /\ l(3) = <<"G0 F6000 Z25">>
                      /\ l(4) = <<"G0 Z", 14>>
                      /\ l(5) = <<"VACUUM_ON">>
                      /\ l(6) = <<"G0 Z", 45>>
                      /\ l(7) = <<"G90">>
                      /\ IsMove(l(8))
                      /\ l(9) = <<"G0 F6000 Z25">>
                      /\ l(10) = <<"G0 Z", 14>>
                      /\ l(11) = <<"VACUUM_OFF">>
                      /\ l(12) = <<"G0 Z", 45>>
            /\ \A k \in DOMAIN vac :
                  vac[k] = IF k % 2 = 1 THEN <<"VACUUM_ON">> ELSE <<"VACUUM_OFF">>
            /\ Len(vac) % 2 = 0

C14_Witness ==
    \E c \in DOMAIN gcalls :
        /\ Len(gcalls[c].text) = 1 + 12 * 4
        /\ Cardinality(DOMAIN gcalls[c].solution.components) = 4
        /\ Len(gcalls[c].solution.wires) = 3

\* the text the generator returns for the layout the search has reached
SolutionText ==
    generate_gcode_from_solution(solution(comps, nets, net_order),
                                 col_dict, len_dict, wires_used).text

\* C15: for every component the placement move targets
\* X = X_ORIGIN_PLACEMENT + pitch * (mean of the pins' columns) and
\* Y = Y_ORIGIN_PLACEMENT - pitch * (mean of the pins' rows), a pin being the
\* pair (row, col) of the solver
C15_PlacementXY ==
    Returned("True") =>
        LET sol == solution(comps, nets, net_order)
            names == sorted(DOMAIN sol.components)
        IN  \A k \in DOMAIN names :
                LET pins == sol.components[names[k]]
                    rows == Sum([i \in DOMAIN pins |-> pins[i][1]])
                    cols == Sum([i \in DOMAIN pins |-> pins[i][2]])
                IN  SolutionText[1 + 12 * (k - 1) + 8] =
                        <<"G0 F6000 X Y",
                          (2 * (107500 * Len(pins) + 2540 * cols) + Len(pins))
                              \div (2 * Len(pins)),
                          (2 * (190000 * Len(pins) - 2540 * rows) + Len(pins))
                              \div (2 * Len(pins))>>

\* C16: the number of wire cycles of the program equals the number of wires
\* of the solution that PnR.solution returns
C16_EveryWireEmitted ==
    Returned("True") =>
        ((Len(SolutionText) - 1) \div 12) - Len(comps) = Cardinality(AllSegs)

\* the name without its trailing digits
RECURSIVE StripDigits(_)
StripDigits(cs) ==
    IF cs # <<>> /\ IsDigit(cs[Len(cs)]) THEN StripDigits(SubSeq(cs, 1, Len(cs) - 1)) ELSE cs

\* the components of a solution whose type has a pickup-tray entry
KnownComponents(sol) ==
    {n \in DOMAIN sol.components : StripDigits(n) \in DOMAIN col_dict_0}

Without(sol, names) ==
    [components |-> [n \in DOMAIN sol.components \ names |-> sol.components[n]],
     wires |-> sol.wires]

\* C17: a component whose type has no pickup-tray entry gets no line, the
\* call completes, and the other components and the wires get exactly the
\* lines they get when that component is absent from the solution
C17_UnknownPartSkipped ==
    \A c \in DOMAIN gcalls :
        LET sol == gcalls[c].solution
            unknown == DOMAIN sol.components \ KnownComponents(sol)
            placed == {n \in KnownComponents(sol) : Len(sol.components[n]) >= 2}
            taken == {i \in DOMAIN sol.wires : wire_type(sol.wires[i]) \in DOMAIN col_dict_0}
        IN  /\ gcalls[c].text =
                  generate_gcode_from_solution(Without(sol, unknown),
                                               col_dict_0, len_dict_0, wires_used_0).text
            /\ Len(gcalls[c].text) = 1 + 12 * (Cardinality(placed) + Cardinality(taken))

C17_Witness ==
    \E c \in DOMAIN gcalls :
        /\ <<"D", "1">> \in DOMAIN gcalls[c].solution.components
        /\ <<"R", "1">> \in DOMAIN gcalls[c].solution.components
        /\ gcalls[c].solution.wires # <<>>
        /\ Len(gcalls[c].text) = 1 + 12 * 4

\* the netlist has been translated; what the call returned
Translated == pnr_inputs # <<>>

Result == pnr_inputs[1]

IsSource(l) == upper(<<l.ref[1]>>) \in {<<"V">>, <<"I">>}

\* the component lines with two nodes that are not sources, in netlist order
Parts == SelectSeq(netlist, LAMBDA l : ~ IsSource(l) /\ Len(l.nodes) >= 2)

RawIsGround(n) == n = <<"0">> \/ upper(n) = GND

\* the positive node of the first voltage source whose negative node is "0"
SupplyPositive ==
    LET vs == {i \in DOMAIN netlist :
                  /\ upper(<<netlist[i].ref[1]>>) = <<"V">>
                  /\ Len(netlist[i].nodes) >= 2
                  /\ netlist[i].nodes[2] = <<"0">>}
    IN  IF vs = {} THEN None
        ELSE netlist[CHOOSE i \in vs : \A j \in vs : i <= j].nodes[1]

\* C18: in the bindings returned by netlist_to_pnr_inputs, a raw node "0" or
\* equal to "GND" ignoring case appears as "GND", the positive node of the
\* first voltage source whose negative node is "0" appears as "V+", no other
\* raw node appears as "GND" or "V+", and no voltage or current source is
\* among the returned components.
C18_RailAliases ==
    Translated =>
        /\ Len(Result.comps) = Len(Parts)
        /\ \A k \in DOMAIN Result.comps :
              Result.comps[k].name \notin
                  {netlist[i].ref : i \in {j \in DOMAIN netlist : IsSource(netlist[j])}}
        /\ \A k \in DOMAIN Parts : \A p \in 1..2 :
              LET raw == Parts[k].nodes[p]
                  bound == Result.bindings[Result.comps[k].name][p]
              IN  /\ RawIsGround(raw) => bound = GND
                  /\ (~ RawIsGround(raw) /\ raw = SupplyPositive) => bound = VPLUS
                  /\ bound = GND => RawIsGround(raw)
                  /\ bound = VPLUS => raw = SupplyPositive

\* the nodes of the entries before and after the renaming, pin a before
\* pin b, in netlist order
AliasedNodes == entry_nodes(entries(netlist))

RenamedNodes == entry_nodes(compacted_entries(entries(netlist)))

IsRailName(n) == n \in {VPLUS, GND}

\* the number of distinct non-rail nodes among the first k of the nodes an
SeenUpTo(an, k) == Cardinality({an[j] : j \in 1..k} \ {VPLUS, GND})

\* C19: netlist_to_pnr_inputs renames the non-rail nodes to N1, N2, ..., Nk
\* without gaps in the order of their first appearance (components in netlist
\* order, pin a before pin b); equal nodes get equal names, distinct nodes
\* distinct names, and "V+" and "GND" keep their names.  The names in the
\* returned bindings and the returned nets are among N1..Nk.
C19_FirstSeenRenaming ==
    Translated =>
        LET an == AliasedNodes
            rn == RenamedNodes
        IN  /\ \A i \in DOMAIN an :
                  IF IsRailName(an[i])
                  THEN rn[i] = an[i]
                  ELSE LET at == CHOOSE j \in 1..i :
                                    an[j] = an[i] /\ \A h \in 1..(j - 1) : an[h] # an[i]
                       IN  rn[i] = <<"N">> \o StrOf(SeenUpTo(an, at))
            /\ \A i, j \in DOMAIN an : (an[i] = an[j]) <=> (rn[i] = rn[j])
            /\ Range(rn) \ {VPLUS, GND} =
                  {<<"N">> \o StrOf(m) : m \in 1..SeenUpTo(an, Len(an))}
            /\ \A n \in DOMAIN Result.bindings : \A p \in 1..2 :
                  Result.bindings[n][p] \in Range(rn)
            /\ Range(Result.nets) \subseteq Range(rn) \ {VPLUS, GND}

\* a netlist was translated in which a node called N1 got the name N2, a
\* node is shared by two components and a rail is used
C19_Witness ==
    /\ Translated
    /\ LET an == AliasedNodes
           rn == RenamedNodes
       IN  /\ \E i \in DOMAIN an : an[i] = <<"N", "1">> /\ rn[i] = <<"N", "2">>
           /\ \E i, j \in DOMAIN an : i + 1 < j /\ an[i] = an[j] /\ ~ IsRailName(an[i])
           /\ \E i \in DOMAIN an : IsRailName(an[i])
    /\ Len(Result.nets) >= 2

\* the base name of a part: "LED" for a diode whose model is an LED model,
\* otherwise its reference
BaseName(l) ==
    IF upper(<<l.ref[1]>>) = <<"D">> /\ contains(upper(l.model), LED) THEN LED ELSE l.ref

\* C20: the first component of a base name is called by the base name and
\* the k-th one (k >= 2) by the base name followed by k - 1; the names are
\* pairwise distinct and the bindings have one entry per component.
C20_DistinctNames ==
    Translated =>
        /\ Len(Result.comps) = Len(Parts)
        /\ \A i \in DOMAIN Parts :
              LET k == 1 + Cardinality({j \in 1..(i - 1) : BaseName(Parts[j]) = BaseName(Parts[i])})
              IN  Result.comps[i].name =
                     IF k = 1 THEN BaseName(Parts[i]) ELSE BaseName(Parts[i]) \o StrOf(k - 1)
        /\ \A i, j \in DOMAIN Result.comps :
              Result.comps[i].name = Result.comps[j].name => i = j
        /\ Cardinality(DOMAIN Result.bindings) = Len(Result.comps)

IsPassiveLine(l) == upper(<<l.ref[1]>>) \in {<<"R">>, <<"C">>, <<"L">>, <<"D">>}

\* C21: no result is returned for a netlist that has a passive component line
\* (R, C, L or D) with fewer than two nodes.
C21_MalformedRejected ==
    Translated =>
        \A i \in DOMAIN netlist : IsPassiveLine(netlist[i]) => Len(netlist[i].nodes) >= 2

\* C22: when the netlist has no voltage source whose negative node is "0", no
\* binding returned by netlist_to_pnr_inputs contains "V+".
C22_NoSupplyNoVplus ==
    Translated /\ SupplyPositive = None =>
        \A n \in DOMAIN Result.bindings : VPLUS \notin Range(Result.bindings[n])

\* C23: for every length from 2 and both orientations, every placement that
\* legal_placements returns has its body and its pins on board holes of one
\* half: none in a trough or gap column, none on a rail.
C23_BodyOnBoardHoles ==
    \A length \in 2..MaxLen : \A o \in {"h", "v"} :
        LET ps == legal_placements(occ, length, o)
        IN  \A k \in DOMAIN ps :
               /\ Range(ps[k].body) \cup Range(ps[k].pins) \subseteq holes
               /\ BodyOnOneHalf(ps[k].body)

\* the holes of segment sg are marked as one wire: its first and last hole
\* wire_end, the holes between wire_body
TaggedAsWire(sg) ==
    /\ Len(sg) >= 2
    /\ \A i \in DOMAIN sg :
          occ[sg[i]].typ = (IF i = 1 \/ i = Len(sg) THEN "wire_end" ELSE "wire_body")
    /\ \A i \in DOMAIN sg : occ[sg[i]].id = occ[sg[1]].id

\* the coordinates on the straight line from a to b, both included
LinePoints(a, b) ==
    {<<a[1] + d[1], a[2] + d[2]>> :
        d \in {<<k * Step(a, b)[1], k * Step(a, b)[2]>> : k \in 0..Manhattan(a, b)}}

\* C24 as claimed: a committed segment whose endpoints are at Manhattan
\* distance L has L + 1 holes, two marked wire_end and L - 1 marked wire_body,
\* also when the line between the endpoints crosses the trough or a gap.
C24_SegmentHasAllPoints ==
    Returned("True") =>
        \A sg \in AllSegs :
            /\ aligned(sg[1], sg[Len(sg)])
            /\ Len(sg) = Manhattan(sg[1], sg[Len(sg)]) + 1
            /\ TaggedAsWire(sg)

\* C24, amended: a committed segment consists of exactly the real holes on
\* the straight line between its endpoints, in order: L + 1 holes when the
\* line crosses neither trough nor gap, fewer when it does; its two end holes
\* are marked wire_end and every hole between them wire_body.
C24_SegmentHasRealHoles ==
    Returned("True") =>
        \A sg \in AllSegs :
            /\ aligned(sg[1], sg[Len(sg)])
            /\ Range(sg) = LinePoints(sg[1], sg[Len(sg)]) \cap RealHoles
            /\ \A i \in 1..(Len(sg) - 1) :
                  Manhattan(sg[1], sg[i]) < Manhattan(sg[1], sg[i + 1])
            /\ TaggedAsWire(sg)

\* a routed board with a wire across the trough or a gap: fewer holes than
\* coordinates on its line
C24_Witness ==
    /\ Returned("True")
    /\ \E sg \in AllSegs :
          Len(sg) < Manhattan(sg[1], sg[Len(sg)]) + 1 /\ TaggedAsWire(sg)

\* no strip holds terminals of two distinct nets
NoMixedStrip ==
    \A n1, n2 \in DOMAIN nets :
        n1 # n2 =>
            \A t1 \in Range(nets[n1].terms) : \A t2 \in Range(nets[n2].terms) :
                strip_of_hole(t1) = <<>> \/ strip_of_hole(t1) # strip_of_hole(t2)

\* placing component c at pl would put two nets on one strip: its pins share
\* a strip and have different nets, or a pin's strip hosts a terminal of
\* another net
StripConflict(c, pl) ==
    LET sa == strip_of_hole(pl.pins[1])
        sb == strip_of_hole(pl.pins[2])
        hosts(strip, name) ==
            \E n \in DOMAIN nets \ {name} :
                \E t \in Range(nets[n].terms) : strip_of_hole(t) = strip
    IN  \/ sa # <<>> /\ sa = sb /\ c.net_a # c.net_b
        \/ sa # <<>> /\ hosts(sa, c.net_a)
        \/ sb # <<>> /\ hosts(sb, c.net_b)

Claimable(pl) == \A h \in Range(pl.body) : h \in DOMAIN occ /\ occ[h].typ = "empty"

\* a candidate that can be claimed and has a strip conflict is rejected: the
\* loop moves to the next candidate with the board and the nets as they were
C25_Rejects ==
    (/\ pc = "loop"
     /\ Top.i <= Len(Top.cands)
     /\ Claimable(Top.cands[Top.i])
     /\ StripConflict(comps[CurIdx], Top.cands[Top.i]))
    => (/\ pc' = "loop"
        /\ stack' = NextCand
        /\ occ' = occ
        /\ nets' = nets
        /\ comps' = comps)

\* C25: at every entry to _place_rec no strip holds terminals of two distinct
\* nets, and a placement whose pins share a strip with different nets, or
\* whose pin lies on a strip that hosts a terminal of another net, is
\* rejected and the search goes on with the next candidate.
C25_NoMixedStrips == [](pc = "enter" => NoMixedStrip) /\ [][C25_Rejects]_vars

\* the search has just rejected a candidate for a strip conflict
C25_Witness ==
    /\ pc = "loop"
    /\ Top.i > 1
    /\ Claimable(Top.cands[Top.i - 1])
    /\ StripConflict(comps[CurIdx], Top.cands[Top.i - 1])

\* the candidate the loop of _place_rec is about to try, and the board and
\* the nets forward_check sees once it is claimed and bound
Cand == Top.cands[Top.i]

Trying == pc = "loop" /\ Top.i <= Len(Top.cands) /\ Claimable(Cand)

CandOcc == claim_component(occ, comps[CurIdx].name, Cand.body, Cand.pins).occ

CandNets == bind_pins(nets, comps[CurIdx], Cand.pins)

PinNet(c, p) == IF p = 1 THEN c.net_a ELSE c.net_b

\* the targets the net of pin p had before this component was placed: the
\* rail of a rail net, the terminals of the components placed earlier
ExistingTargets(c, p) ==
    IF IsRail(PinNet(c, p)) THEN frontier_of_anchor(CandOcc, PinNet(c, p))
    ELSE IF PinNet(c, p) \notin DOMAIN nets THEN <<>>
    ELSE frontier_of_group(CandOcc, nets[PinNet(c, p)].terms)

HasExistingTarget(c, p) ==
    IsRail(PinNet(c, p)) \/
    (PinNet(c, p) \in DOMAIN nets /\ nets[PinNet(c, p)].terms # <<>>)

\* C26: a placement is admitted by forward_check only if every pin whose net
\* already has a target (the rail, or a terminal of a component placed
\* earlier) has a legal wire path of at most max_segments segments from the
\* empty holes of its strip to the frontier of those targets.
C26_AdmittedIsReachable ==
    [][(Trying /\ pc' = "enter") =>
          \A p \in 1..2 :
              HasExistingTarget(comps[CurIdx], p) =>
                  find_path_edges(CandOcc, wire_lengths,
                                  frontier_of_hole(CandOcc, Cand.pins[p]),
                                  ExistingTargets(comps[CurIdx], p)).found]_vars

\* pin p of the candidate is the first terminal of an internal net
FirstTerminal(c, p) ==
    /\ ~ IsRail(PinNet(c, p))
    /\ PinNet(c, p) \in DOMAIN nets
    /\ nets[PinNet(c, p)].terms = <<>>
    /\ c.net_a # c.net_b

\* pin p has a straight jumper from its strip to its existing targets
PinReaches(c, p) ==
    find_straight_edge(CandOcc, wire_lengths,
                       frontier_of_hole(CandOcc, Cand.pins[p]),
                       ExistingTargets(c, p)).found

\* C27: forward_check does not reject a placement on account of a pin that is
\* the first terminal of its internal net: a candidate without strip conflict
\* each of whose pins is such a first terminal or has a straight jumper to its
\* existing targets is not rejected.
C27_FirstTerminalAdmitted ==
    [][(/\ Trying
        /\ ~ StripConflict(comps[CurIdx], Cand)
        /\ \E p \in 1..2 : FirstTerminal(comps[CurIdx], p)
        /\ \A p \in 1..2 : FirstTerminal(comps[CurIdx], p) \/ PinReaches(comps[CurIdx], p))
       => ~ (pc' = "loop" /\ stack' = NextCand)]_vars

\* the net route_net is about to be called for, the union-find its first
\* rebuild gives and the groups it then builds
RoutedNet == nets[net_order[net_idx]]

RoutedUf == rebuild_union_find(nets, net_order)

RoutedGroups == rep_groups(<<>>, RoutedUf, RoutedNet.terms \o anchor_holes(RoutedNet))

\* C28: when route_net is called for a net with a fixed anchor and a terminal
\* that is not yet connected to that rail, the base group (the source side of
\* every path search) is the connectivity group of the rail anchor hole.
C28_BaseIsRailGroup ==
    (/\ pc = "route" /\ net_idx <= Len(net_order)
     /\ anchor_holes(RoutedNet) # <<>>
     /\ \E t \in Range(RoutedNet.terms) :
            find(RoutedUf, t) # find(RoutedUf, anchor_holes(RoutedNet)[1]))
    => LET groups == AsList(RoutedGroups)
       IN  groups[1].rep = find(RoutedUf, anchor_holes(RoutedNet)[1])

\* the path of the first search route_net makes for the net: from the base
\* group to the second group
RoutedPath ==
    LET groups == AsList(RoutedGroups)
    IN  IF Len(groups) <= 1 \/ net_satisfied(RoutedUf, RoutedNet) THEN NoPath
        ELSE find_path_edges(occ, wire_lengths,
                             frontier_of_group(occ, groups[1].members),
                             frontier_of_group(occ, groups[2].members))

\* a legal jumper on the present board
EdgeLegal(e) ==
    /\ aligned(e[1], e[2])
    /\ Manhattan(e[1], e[2]) \in Range(wire_lengths)
    /\ \A h \in LinePoints(e[1], e[2]) \cap RealHoles : IsEmpty(occ, h)
    /\ \A h \in LinePoints(e[1], e[2]) \ {e[1], e[2]} : h \notin rails_v \cup rails_g

\* C29: every edge of a non-empty path returned by find_path_edges is
\* axis-aligned with a length in wire_lengths, has every real hole on the line
\* between its ends empty and has no rail hole strictly between its ends.
C29_PathEdgesLegal ==
    (pc = "route" /\ net_idx <= Len(net_order)) =>
        LET path == RoutedPath
        IN  \A i \in DOMAIN path.edges : EdgeLegal(path.edges[i])

\* the first two calls of commit_path that route_net makes for the net: for
\* the path from the base group to the second group and, when that is
\* committed, for the path from the two groups to the third
FirstCommit ==
    commit_path([ok |-> TRUE, occ |-> occ, seg_paths |-> RoutedNet.seg_paths,
                 uf |-> RoutedUf, seg_id_ctr |-> seg_id_ctr],
                RoutedNet.name, RoutedPath.edges)

SecondPath ==
    LET groups == AsList(RoutedGroups)
        c == FirstCommit
    IN  IF Len(groups) <= 2 \/ RoutedPath.edges = <<>> THEN NoPath
        ELSE IF ~c.ok THEN NoPath
        ELSE find_path_edges(c.occ, wire_lengths,
                             frontier_of_group(c.occ, groups[1].members \o groups[2].members),
                             frontier_of_group(c.occ, groups[3].members))

SecondCommit ==
    commit_path([FirstCommit EXCEPT
                    !.uf = rebuild_union_find(
                               [nets EXCEPT ![RoutedNet.name].seg_paths = FirstCommit.seg_paths],
                               net_order)],
                RoutedNet.name, SecondPath.edges)

\* C30: when commit_path returns False, hole occupancy and net.seg_paths are
\* as they were before the call: the segments claimed during the call are
\* released and removed, the segments committed for the net by an earlier
\* call are still claimed and still listed.
C30_FailedCommitRestores ==
    (pc = "route" /\ net_idx <= Len(net_order)) =>
        /\ (RoutedPath.edges # <<>> /\ ~ FirstCommit.ok) =>
               /\ FirstCommit.occ = occ
               /\ FirstCommit.seg_paths = RoutedNet.seg_paths
        /\ (SecondPath.edges # <<>> /\ ~ SecondCommit.ok) =>
               /\ SecondCommit.occ = FirstCommit.occ
               /\ SecondCommit.seg_paths = FirstCommit.seg_paths

\* C31: commit_path succeeds on a path of two consecutive edges (a, b), (b, c)
\* that share the joint hole b when every real hole of both edges is empty and
\* no rail rule is violated: it returns True, adds two segments to
\* net.seg_paths and leaves a, b and c with one union-find representative.
C31_LShapedCommits ==
    (/\ pc = "route" /\ net_idx <= Len(net_order)
     /\ Len(RoutedPath.edges) = 2
     /\ RoutedPath.edges[1][2] = RoutedPath.edges[2][1]
     /\ \A i \in 1..2 : edge_ok(occ, RoutedNet.name, RoutedPath.edges[i]))
    => LET c == FirstCommit
           e == RoutedPath.edges
       IN  /\ c.ok
           /\ Len(c.seg_paths) = Len(RoutedNet.seg_paths) + 2
           /\ find(c.uf, e[1][1]) = find(c.uf, e[1][2])
           /\ find(c.uf, e[1][2]) = find(c.uf, e[2][2])

\* the pin holes that the placed components bind to net n
BoundPins(n) ==
    {comps[i].pins[1] : i \in {j \in DOMAIN comps : comps[j].pins # <<>> /\ comps[j].net_a = n}}
    \cup
    {comps[i].pins[2] : i \in {j \in DOMAIN comps : comps[j].pins # <<>> /\ comps[j].net_b = n}}

TermsExact ==
    \A n \in DOMAIN nets :
        /\ Range(nets[n].terms) = BoundPins(n)
        /\ Len(nets[n].terms) = Cardinality(BoundPins(n))

\* the caller's loop tail takes from every net the pins of the component it
\* undoes and nothing else; a rejected candidate leaves every list as it was
UnbindExact ==
    /\ (pc = "retF" /\ stack # <<>> /\ pc' = "loop") =>
           \A n \in DOMAIN nets :
               nets'[n].terms =
                   SelectSeq(nets[n].terms,
                             LAMBDA h : ~ \/ (comps[CurIdx].net_a = n /\ h = comps[CurIdx].pins[1])
                                          \/ (comps[CurIdx].net_b = n /\ h = comps[CurIdx].pins[2]))
    /\ (pc = "loop" /\ pc' = "loop") => nets' = nets

\* C32: at every entry to _place_rec and when place_and_route returns, each
\* net's terms list holds exactly the pin holes of the placed components bound
\* to the net, each once; backtracking over a candidate removes exactly the
\* pin holes its binding added and leaves the other nets' terms unchanged.
C32_TermsArePlacedPins ==
    [](pc \in {"enter", "done"} => TermsExact) /\ [][UnbindExact]_vars

C32_Witness ==
    /\ pc = "enter" /\ stack # <<>> /\ Top.i > 1 /\ seg_id_ctr > 1
    /\ Len(stack) = 2
    /\ \E n \in DOMAIN nets : Len(nets[n].terms) = 2

\* the segments of the inventory that contain hole h, as (net, index) pairs
SegsAt(h) ==
    {nk \in UNION {{<<n, k>> : k \in DOMAIN nets[n].seg_paths} : n \in DOMAIN nets} :
        h \in Range(nets[nk[1]].seg_paths[nk[2]])}

WireTagged(h) == occ[h].typ \in {"wire_end", "wire_body"}

CompTagged(h) == occ[h].typ \in {"comp_pin", "comp_body"}

\* C33: in every state of one place_and_route call on a fresh board a hole is
\* tagged as a wire if and only if it belongs to exactly one segment listed in
\* some net's seg_paths, no hole belongs to two segments, and a hole is tagged
\* as pin or body of c if and only if c is placed and the hole is in its pins
\* or body.
C33_OccupancyMatchesInventory ==
    run = 1 =>
        \A h \in DOMAIN occ :
            /\ WireTagged(h) <=> Cardinality(SegsAt(h)) = 1
            /\ Cardinality(SegsAt(h)) <= 1
            /\ \A i \in DOMAIN comps :
                   (CompTagged(h) /\ occ[h].id = comps[i].name)
                       <=> h \in Range(comps[i].body)
            /\ CompTagged(h) => \E i \in DOMAIN comps : occ[h].id = comps[i].name

C33_Witness ==
    /\ run = 1 /\ pc = "loop"
    /\ \E h \in DOMAIN occ : WireTagged(h)
    /\ \E h \in DOMAIN occ : CompTagged(h)
    /\ \E n \in DOMAIN nets : Len(nets[n].seg_paths) >= 2

\* the holes electrically common with h on the bare board: its strip for a
\* board hole, its rail for a rail hole
StripOrRail(h) ==
    IF h \in rails_v THEN rails_v
    ELSE IF h \in rails_g THEN rails_g
    ELSE Range(strip_of_hole(h))

\* C34: frontier_of_hole(h) returns exactly the empty holes other than h of
\* h's strip when h is a board hole and of h's rail when h is a rail hole; the
\* result never contains h itself and never a non-empty hole.
C34_FrontierExcludesHole ==
    \A h \in RealHoles :
        LET fr == AsList(frontier_of_hole(occ, h))
        IN  /\ Range(fr) = {g \in StripOrRail(h) : IsEmpty(occ, g) /\ g # h}
            /\ h \notin Range(fr)
            /\ \A g \in Range(fr) : IsEmpty(occ, g)

\* the wires of a solution that get a cycle, in order
EmittedWires(sol) ==
    SelectSeq(sol.wires,
              LAMBDA w : w # <<>> /\ wire_type(w) \in DOMAIN col_dict \cap DOMAIN len_dict)

\* the XY move to the tray of the j-th wire cycle of a text with nw wire cycles
WirePickupMove(text, nw, j) == text[1 + 12 * (((Len(text) - 1) \div 12) - nw + j - 1) + 2]

\* C35: each wire type has its own slot counter that advances with every
\* wire emitted: the i-th emitted wire of a type (i = 0, 1, ...) is picked up
\* from slot i, so two wires of one type in one program are never picked up
\* from the same position.
C35_WireSlotsAdvance ==
    \A c \in DOMAIN gcalls :
        LET ws == AsList(EmittedWires(gcalls[c].solution))
            text == gcalls[c].text
        IN  /\ \A j \in DOMAIN ws :
                   LET t == wire_type(ws[j])
                       i == Cardinality({k \in 1..(j - 1) : wire_type(ws[k]) = t})
                   IN  WirePickupMove(text, Len(ws), j) =
                           <<"G0 F6000 X Y",
                             round3_plus(X_ORIGIN_PICKUP, <<pitch * col_dict[t], 1>>),
                             round3_minus(Y_ORIGIN_PICKUP,
                                          <<pitch * (len_dict[t] - 1) * (2 * i + 1), 2>>)>>
            /\ \A j \in DOMAIN ws : \A k \in DOMAIN ws :
                   (j # k /\ wire_type(ws[j]) = wire_type(ws[k])) =>
                       WirePickupMove(text, Len(ws), j) # WirePickupMove(text, Len(ws), k)

\* the tray position the emitter computes for a component name
PickupCenter(name) ==
    tray_center(col_dict, len_dict, part_type(name), part_num(name) - 1, part_num(name))

HasTray(name) == part_type(name) \in DOMAIN col_dict \cap DOMAIN len_dict

\* C36: two distinct components of one tray type that netlist_to_pnr_inputs
\* returns are picked up from different positions by
\* generate_gcode_from_solution: their names map to distinct instance numbers.
C36_DistinctPickups ==
    Translated =>
        \A i, j \in DOMAIN Result.comps :
            (/\ i # j
             /\ HasTray(Result.comps[i].name)
             /\ part_type(Result.comps[i].name) = part_type(Result.comps[j].name))
            => /\ part_num(Result.comps[i].name) # part_num(Result.comps[j].name)
               /\ PickupCenter(Result.comps[i].name) # PickupCenter(Result.comps[j].name)

IsZ(line) == line = <<"G0 F6000 Z25">> \/ (Len(line) = 2 /\ line[1] = "G0 Z")

\* the last Z command of the text before line k
LastZBefore(text, k) ==
    LET zs == {i \in 1..(k - 1) : IsZ(text[i])}
    IN  IF zs = {} THEN <<>> ELSE text[CHOOSE i \in zs : \A j \in zs : j <= i]

\* C37: in every emitted program each XY move is executed at the passive
\* height: the last Z command before any 'G0 F6000 X.. Y..' line sets Z to
\* PASSIVE_HEIGHT, never to 25, PICKUP_HEIGHT or PLACE_HEIGHT.
C37_MovesAtPassiveHeight ==
    \A c \in DOMAIN gcalls :
        \A k \in DOMAIN gcalls[c].text :
            IsMove(gcalls[c].text[k]) =>
                LastZBefore(gcalls[c].text, k) = <<"G0 Z", PASSIVE_HEIGHT>>

C37_Witness ==
    \E c \in DOMAIN gcalls :
        /\ gcalls[c].solution.wires # <<>>
        /\ Cardinality({k \in DOMAIN gcalls[c].text : IsMove(gcalls[c].text[k])}) = 8

\* the position of a workflow in the map
WfIndex(name) == CHOOSE k \in DOMAIN workflows : workflows[k] = name

EndedWith(k, sts) ==
    \E e \in DOMAIN ended : ended[e].workflow = workflows[k] /\ ended[e].status \in sts

Statuses == {"pending", "running", "success", "error"}

\* C38: runWorkflows runs the workflows strictly in map order: whenever a
\* workflow's run has been invoked, every earlier workflow of the map has
\* ended with status SUCCESS and no later workflow was run before it; no
\* workflow's run is invoked more than max_retries times; and once a workflow
\* has ended without SUCCESS the call has returned and no later workflow was
\* started or run.
C38_MapOrder ==
    /\ \A p \in DOMAIN invocations :
          LET k == WfIndex(invocations[p])
          IN  /\ \A j \in 1..(k - 1) : EndedWith(j, {"success"})
              /\ \A q \in 1..p : WfIndex(invocations[q]) <= k
    /\ \A k \in DOMAIN workflows :
          Cardinality({p \in DOMAIN invocations : invocations[p] = workflows[k]})
              <= max_retries
    /\ \A k \in DOMAIN workflows :
          EndedWith(k, Statuses \ {"success"}) =>
              /\ o_pc = "returned"
              /\ \A j \in (k + 1)..Len(workflows) :
                    /\ workflows[j] \notin Range(invocations)
                    /\ Event("workflow_started", workflows[j]) \notin Range(events)

\* a run of three workflows in which the first succeeded and the second
\* failed after max_retries = 2 attempts
C38_Witness ==
    /\ o_pc = "returned"
    /\ Len(workflows) = 3
    /\ max_retries = 2
    /\ EndedWith(1, {"success"})
    /\ EndedWith(2, {"error"})
    /\ Cardinality({p \in DOMAIN invocations : invocations[p] = workflows[2]}) = 2

TerminalEvents ==
    {k \in DOMAIN events : events[k].type \in {"run_succeeded", "workflow_failed"}}

AllSucceeded == \A k \in DOMAIN workflows : EndedWith(k, {"success"})

\* C39: a call of runWorkflows emits run_started first and only once, never
\* emits more than one terminal event, and has emitted exactly one when it
\* has returned: run_succeeded if all workflows succeeded, otherwise
\* workflow_failed for the workflow that stopped the run.
C39_OneTerminalEvent ==
    /\ o_pc # "idle" => events # <<>> /\ events[1] = Event("run_started", "")
    /\ Cardinality({k \in DOMAIN events : events[k].type = "run_started"}) <= 1
    /\ Cardinality(TerminalEvents) <= 1
    /\ o_pc = "returned" =>
          /\ Cardinality(TerminalEvents) = 1
          /\ LET t == events[CHOOSE k \in TerminalEvents : TRUE]
             IN  IF AllSucceeded THEN t = Event("run_succeeded", "")
                 ELSE t = Event("workflow_failed", workflows[wf_i])

====
